---------------------------- MODULE Spec2Model ----------------------------
(***************************************************************************)
(* ProfileMapperAPI: the matching / scoring engine of src/src/matching.ts. *)
(*                                                                         *)
(* Strings are sequences of UTF-16 code units, each code unit written as a *)
(* TLA+ string ("a", " ", "I_DOT" for U+0130, "DOT" for U+0307).  Numbers  *)
(* returned by the matchers are exact rationals <<n, d>> in lowest terms   *)
(* with d > 0; the model computes in exact arithmetic where the program    *)
(* computes in IEEE doubles.  undefined is the value NONE.                 *)
(***************************************************************************)
EXTENDS Integers, Sequences, FiniteSets, TLC

VARIABLES now, tz, pc, call, at, result

vars == <<now, tz, pc, call, at, result>>

\* undefined, as a value comparable with every string
NONE == <<"UNDEFINED">>

\* null
NULL == <<>>

\* ------------------------------------------------------------------------
\* Exact rationals
\* ------------------------------------------------------------------------
Abs(n) == IF n < 0 THEN -n ELSE n

RECURSIVE Gcd(_, _)
Gcd(a, b) == IF b = 0 THEN a ELSE Gcd(b, a % b)

Rat(n, d) ==
  LET g == Gcd(Abs(n), Abs(d))
      s == IF d < 0 THEN -1 ELSE 1
  IN  IF n = 0 THEN <<0, 1>> ELSE <<(s * n) \div g, (s * d) \div g>>

Zero == Rat(0, 1)
One == Rat(1, 1)
RAdd(x, y) == Rat(x[1] * y[2] + y[1] * x[2], x[2] * y[2])
RSub(x, y) == Rat(x[1] * y[2] - y[1] * x[2], x[2] * y[2])
RMul(x, y) == Rat(x[1] * y[1], x[2] * y[2])
RDiv(x, y) == Rat(x[1] * y[2], x[2] * y[1])
RLt(x, y) == x[1] * y[2] < y[1] * x[2]
RLe(x, y) == x[1] * y[2] <= y[1] * x[2]
InUnit(x) == RLe(Zero, x) /\ RLe(x, One)

\* Math.round: the nearest integer, halves towards +infinity.
MathRound(x) == (2 * x[1] + x[2]) \div (2 * x[2])

\* ------------------------------------------------------------------------
\* JavaScript string primitives
\* ------------------------------------------------------------------------
WS == {" ", "\t"}
Digit == {"0", "1", "2", "3", "4", "5", "6", "7", "8", "9"}

\* String.prototype.toLowerCase on one code unit.  U+0130 (capital I with
\* dot above) lowercases to the two code units "i" U+0307.
LowerOf ==
  [A |-> <<"a">>, B |-> <<"b">>, C |-> <<"c">>, D |-> <<"d">>, E |-> <<"e">>,
   F |-> <<"f">>, G |-> <<"g">>, H |-> <<"h">>, I |-> <<"i">>, J |-> <<"j">>,
   K |-> <<"k">>, L |-> <<"l">>, M |-> <<"m">>, N |-> <<"n">>, O |-> <<"o">>,
   P |-> <<"p">>, Q |-> <<"q">>, R |-> <<"r">>, S |-> <<"s">>, T |-> <<"t">>,
   U |-> <<"u">>, V |-> <<"v">>, W |-> <<"w">>, X |-> <<"x">>, Y |-> <<"y">>,
   Z |-> <<"z">>, I_DOT |-> <<"i", "DOT">>]

RECURSIVE toLowerCase(_)
toLowerCase(s) ==
  IF s = <<>> THEN <<>>
  ELSE (IF Head(s) \in DOMAIN LowerOf THEN LowerOf[Head(s)] ELSE <<Head(s)>>)
       \o toLowerCase(Tail(s))

RECURSIVE trimStart(_)
trimStart(s) ==
  IF s # <<>> /\ Head(s) \in WS THEN trimStart(Tail(s)) ELSE s

RECURSIVE trimEnd(_)
trimEnd(s) ==
  IF s # <<>> /\ s[Len(s)] \in WS THEN trimEnd(SubSeq(s, 1, Len(s) - 1)) ELSE s

trim(s) == trimEnd(trimStart(s))

\* s.includes(sub)
includes(s, sub) ==
  \E i \in 0..(Len(s) - Len(sub)) : SubSeq(s, i + 1, i + Len(sub)) = sub

startsWith(s, p) == Len(p) <= Len(s) /\ SubSeq(s, 1, Len(p)) = p

\* s.slice(-n)
sliceLast(s, n) == IF Len(s) <= n THEN s ELSE SubSeq(s, Len(s) - n + 1, Len(s))

\* s.replace(/[class]/g, '') : delete every code unit of the class
RECURSIVE remove(_, _)
remove(s, class) ==
  IF s = <<>> THEN <<>>
  ELSE (IF Head(s) \in class THEN <<>> ELSE <<Head(s)>>) \o remove(Tail(s), class)

\* s.replace(/[class]/g, ' ')
replaceBySpace(s, class) == [i \in 1..Len(s) |-> IF s[i] \in class THEN " " ELSE s[i]]

\* s.replace(/\s+/g, ' ') : every maximal whitespace run becomes one space
RECURSIVE collapseWS(_)
collapseWS(s) ==
  IF s = <<>> THEN <<>>
  ELSE IF Head(s) \in WS
       THEN <<" ">> \o collapseWS(trimStart(s))
       ELSE <<Head(s)>> \o collapseWS(Tail(s))

\* s.split(/\s+/) : the pieces between maximal whitespace runs, empty pieces
\* at either end included ("".split gives [""], " a".split gives ["", "a"]).
RECURSIVE splitWS(_, _)
splitWS(s, cur) ==
  IF s = <<>> THEN <<cur>>
  ELSE IF Head(s) \in WS
       THEN <<cur>> \o splitWS(trimStart(s), <<>>)
       ELSE splitWS(Tail(s), Append(cur, Head(s)))

\* array.filter(Boolean) on an array of strings: drop the empty strings
filterBoolean(ws) == SelectSeq(ws, LAMBDA w : w # <<>>)

\* array.join(' ')
RECURSIVE joinSpace(_)
joinSpace(ws) ==
  IF ws = <<>> THEN <<>>
  ELSE IF Len(ws) = 1 THEN ws[1]
  ELSE ws[1] \o <<" ">> \o joinSpace(Tail(ws))

\* s.split('@')[0]
RECURSIVE beforeAt(_)
beforeAt(s) ==
  IF s = <<>> \/ Head(s) = "@" THEN <<>> ELSE <<Head(s)>> \o beforeAt(Tail(s))

\* parseInt on a string of decimal digits
DigitVal ==
  [c \in Digit |-> CASE c = "0" -> 0 [] c = "1" -> 1 [] c = "2" -> 2 [] c = "3" -> 3
                     [] c = "4" -> 4 [] c = "5" -> 5 [] c = "6" -> 6 [] c = "7" -> 7
                     [] c = "8" -> 8 [] c = "9" -> 9]

RECURSIVE parseInt(_)
parseInt(ds) ==
  IF ds = <<>> THEN 0 ELSE 10 * parseInt(SubSeq(ds, 1, Len(ds) - 1)) + DigitVal[ds[Len(ds)]]

\* JavaScript truthiness of an optional string or array
Truthy(v) == v # NONE /\ v # <<>>

\* ------------------------------------------------------------------------
\* String similarity
\* ------------------------------------------------------------------------
Min3(x, y, z) == IF x <= y /\ x <= z THEN x ELSE IF y <= z THEN y ELSE z

\* One row of the matrix: row[j + 1] is matrix[i][j], j = 0..a.length.
RECURSIVE levRow(_, _, _, _)
levRow(prevRow, a, bch, row) ==
  LET j == Len(row)
  IN  IF j > Len(a) THEN row
      ELSE levRow(prevRow, a, bch,
             Append(row, IF bch = a[j]
                         THEN prevRow[j]
                         ELSE Min3(prevRow[j] + 1, row[j] + 1, prevRow[j + 1] + 1)))

\* The rows for b[i], b[i + 1], ...: each row is completed before the next
\* one is begun.
RECURSIVE levRows(_, _, _, _)
levRows(prevRow, a, b, i) ==
  IF i > Len(b) THEN prevRow
  ELSE LET row == levRow(prevRow, a, b[i], <<i>>)
       IN  IF Len(row) = Len(a) + 1 THEN levRows(row, a, b, i + 1) ELSE row

levenshtein(a, b) == levRows([j \in 1..(Len(a) + 1) |-> j - 1], a, b, 1)[Len(a) + 1]

Max(x, y) == IF x >= y THEN x ELSE y

similarity(a, b) ==
  LET trimA == trim(a)
      trimB == trim(b)
      maxLen == Max(Len(trimA), Len(trimB))
  IN  IF trimA = <<>> \/ trimB = <<>> THEN Zero
      ELSE IF maxLen = 0 THEN Zero
      ELSE RSub(One, Rat(levenshtein(toLowerCase(trimA), toLowerCase(trimB)), maxLen))

\* ------------------------------------------------------------------------
\* Nickname mapping
\* ------------------------------------------------------------------------
\* A table in which one nickname belongs to two formal names
NICKNAMESShared ==
  <<<<<<"r", "o", "b", "e", "r", "t">>, <<<<"r", "o", "b">>, <<"b", "o", "b">>>>>>,
    <<<<"r", "o", "b", "e", "r", "t", "a">>, <<<<"b", "o", "b">>, <<"b", "o", "b", "b", "i", "e">>>>>>>>

NICKNAMES ==
  <<<<<<"w", "i", "l", "l", "i", "a", "m">>,
      <<<<"w", "i", "l", "l">>,
        <<"b", "i", "l", "l">>,
        <<"b", "i", "l", "l", "y">>>>>>,
    <<<<"r", "o", "b", "e", "r", "t">>,
      <<<<"r", "o", "b">>,
        <<"b", "o", "b">>,
        <<"b", "o", "b", "b", "y">>>>>>,
    <<<<"r", "i", "c", "h", "a", "r", "d">>,
      <<<<"r", "i", "c", "k">>,
        <<"d", "i", "c", "k">>,
        <<"r", "i", "c", "h">>>>>>,
    <<<<"j", "a", "m", "e", "s">>,
      <<<<"j", "i", "m">>,
        <<"j", "i", "m", "m", "y">>,
        <<"j", "a", "m", "i", "e">>>>>>,
    <<<<"m", "i", "c", "h", "a", "e", "l">>,
      <<<<"m", "i", "k", "e">>,
        <<"m", "i", "k", "e", "y">>>>>>,
    <<<<"e", "l", "i", "z", "a", "b", "e", "t", "h">>,
      <<<<"l", "i", "z">>,
        <<"b", "e", "t", "h">>,
        <<"l", "i", "z", "z", "y">>,
        <<"b", "e", "t", "t", "y">>>>>>,
    <<<<"j", "e", "n", "n", "i", "f", "e", "r">>,
      <<<<"j", "e", "n">>,
        <<"j", "e", "n", "n", "y">>>>>>,
    <<<<"m", "a", "r", "g", "a", "r", "e", "t">>,
      <<<<"m", "a", "g", "g", "i", "e">>,
        <<"m", "e", "g">>,
        <<"p", "e", "g", "g", "y">>>>>>,
    <<<<"k", "a", "t", "h", "e", "r", "i", "n", "e">>,
      <<<<"k", "a", "t", "e">>,
        <<"k", "a", "t", "h", "y">>,
        <<"k", "a", "t", "i", "e">>>>>>,
    <<<<"j", "o", "n", "a", "t", "h", "a", "n">>,
      <<<<"j", "o", "n">>,
        <<"j", "o", "h", "n">>,
        <<"j", "o", "h", "n", "n", "y">>>>>>,
    <<<<"c", "h", "r", "i", "s", "t", "o", "p", "h", "e", "r">>,
      <<<<"c", "h", "r", "i", "s">>>>>>,
    <<<<"n", "i", "c", "h", "o", "l", "a", "s">>,
      <<<<"n", "i", "c", "k">>>>>>,
    <<<<"a", "l", "e", "x", "a", "n", "d", "e", "r">>,
      <<<<"a", "l", "e", "x">>>>>>,
    <<<<"b", "e", "n", "j", "a", "m", "i", "n">>,
      <<<<"b", "e", "n">>>>>>,
    <<<<"d", "a", "n", "i", "e", "l">>,
      <<<<"d", "a", "n">>,
        <<"d", "a", "n", "n", "y">>>>>>,
    <<<<"m", "a", "t", "t", "h", "e", "w">>,
      <<<<"m", "a", "t", "t">>>>>>,
    <<<<"a", "n", "t", "h", "o", "n", "y">>,
      <<<<"t", "o", "n", "y">>>>>>,
    <<<<"j", "o", "s", "e", "p", "h">>,
      <<<<"j", "o", "e">>,
        <<"j", "o", "e", "y">>>>>>,
    <<<<"d", "a", "v", "i", "d">>,
      <<<<"d", "a", "v", "e">>>>>>>>

\* The entry's formal name followed by its nicknames, as a set.
entryNames(entry) == {entry[1]} \cup {entry[2][i] : i \in 1..Len(entry[2])}

\* The table is not consulted: only identical first names are variants
areNicknameVariantsNoTable(n1, n2) == toLowerCase(n1) = toLowerCase(n2)

areNicknameVariants(n1, n2) ==
  LET a == toLowerCase(n1)
      b == toLowerCase(n2)
  IN  \/ a = b
      \/ \E e \in 1..Len(NICKNAMES) :
           a \in entryNames(NICKNAMES[e]) /\ b \in entryNames(NICKNAMES[e])

\* ------------------------------------------------------------------------
\* Location aliases
\* ------------------------------------------------------------------------
LOCATION_ALIASES ==
  <<<<<<"s", "a", "n", " ", "f", "r", "a", "n", "c", "i", "s", "c", "o">>,
      <<<<"s", "f">>,
        <<"b", "a", "y", " ", "a", "r", "e", "a">>,
        <<"s", "f", " ", "b", "a", "y", " ", "a", "r", "e", "a">>>>>>,
    <<<<"n", "e", "w", " ", "y", "o", "r", "k">>,
      <<<<"n", "y", "c">>,
        <<"n", "e", "w", " ", "y", "o", "r", "k", " ", "c", "i", "t", "y">>,
        <<"n", "y">>,
        <<"m", "a", "n", "h", "a", "t", "t", "a", "n">>>>>>,
    <<<<"l", "o", "s", " ", "a", "n", "g", "e", "l", "e", "s">>,
      <<<<"l", "a">>,
        <<"s", "o", "c", "a", "l">>>>>>>>

normalizeLocation(loc) ==
  trim(collapseWS(replaceBySpace(toLowerCase(loc), {".", ","})))

matchLocationAlias(loc1, loc2) ==
  LET n1 == normalizeLocation(loc1)
      n2 == normalizeLocation(loc2)
  IN  \E e \in 1..Len(LOCATION_ALIASES) :
        /\ \E x \in entryNames(LOCATION_ALIASES[e]) : includes(n1, x)
        /\ \E y \in entryNames(LOCATION_ALIASES[e]) : includes(n2, y)

\* ------------------------------------------------------------------------
\* Phone normalization
\* ------------------------------------------------------------------------
digitsOf(s) == SelectSeq(s, LAMBDA c : c \in Digit)

normalizePhone(phone) == sliceLast(digitsOf(phone), 10)

\* ------------------------------------------------------------------------
\* Date parsing
\* ------------------------------------------------------------------------
allDigits(s) == \A i \in 1..Len(s) : s[i] \in Digit

\* new Date(dateStr) for the two layouts the model draws, any other text being
\* an Invalid Date: YYYY-MM-DD is midnight UTC of that day, MM/DD/YYYY is
\* midnight local time.  The value is <<layout, year, month, day>>.
parseDate(dateStr) ==
  IF /\ Len(dateStr) = 10
     /\ dateStr[5] = "-" /\ dateStr[8] = "-"
     /\ allDigits(SubSeq(dateStr, 1, 4))
     /\ allDigits(SubSeq(dateStr, 6, 7)) /\ allDigits(SubSeq(dateStr, 9, 10))
     /\ parseInt(SubSeq(dateStr, 6, 7)) \in 1..12
     /\ parseInt(SubSeq(dateStr, 9, 10)) \in 1..31
  THEN <<"utc", parseInt(SubSeq(dateStr, 1, 4)), parseInt(SubSeq(dateStr, 6, 7)),
         parseInt(SubSeq(dateStr, 9, 10))>>
  ELSE IF /\ Len(dateStr) = 10
          /\ dateStr[3] = "/" /\ dateStr[6] = "/"
          /\ allDigits(SubSeq(dateStr, 1, 2))
          /\ allDigits(SubSeq(dateStr, 4, 5)) /\ allDigits(SubSeq(dateStr, 7, 10))
          /\ parseInt(SubSeq(dateStr, 1, 2)) \in 1..12
          /\ parseInt(SubSeq(dateStr, 4, 5)) \in 1..31
  THEN <<"local", parseInt(SubSeq(dateStr, 7, 10)), parseInt(SubSeq(dateStr, 1, 2)),
         parseInt(SubSeq(dateStr, 4, 5))>>
  ELSE NULL

\* Date.prototype.getFullYear: the year of the instant in local time.  Midnight
\* UTC of January 1st lies in the previous year wherever local time is behind
\* UTC (tz < 0 hours).
getFullYear(d) ==
  IF d[1] = "utc" /\ d[3] = 1 /\ d[4] = 1 /\ tz < 0 THEN d[2] - 1 ELSE d[2]

\* Case-insensitive comparison of the /i flag: ASCII letters only.
asciiLower(c) == IF c \in DOMAIN LowerOf /\ Len(LowerOf[c]) = 1 THEN LowerOf[c][1] ELSE c

ciAt(s, i, word) ==
  /\ i + Len(word) - 1 <= Len(s)
  /\ \A k \in 1..Len(word) : asciiLower(s[i + k - 1]) = word[k]

\* The first index >= i of s that holds no whitespace (Len(s) + 1 if none).
RECURSIVE skipWS(_, _)
skipWS(s, i) == IF i <= Len(s) /\ s[i] \in WS THEN skipWS(s, i + 1) ELSE i

digitsAt(s, i, n) == i + n - 1 <= Len(s) /\ allDigits(SubSeq(s, i, i + n - 1))

\* /born\s+(?:in\s+)?(\d{4})/i tried at index i: the index of the captured
\* four digits, or 0 when the pattern does not match there.
bornAt(s, i) ==
  IF ~ciAt(s, i, <<"b", "o", "r", "n">>) THEN 0
  ELSE LET k == skipWS(s, i + 4)
           k2 == skipWS(s, k + 2)
       IN  IF k = i + 4 THEN 0
           ELSE IF ciAt(s, k, <<"i", "n">>) /\ k2 > k + 2 /\ digitsAt(s, k2, 4) THEN k2
           ELSE IF digitsAt(s, k, 4) THEN k
           ELSE 0

\* (?:years?\s*old|yo|y\/o) at index i, case-insensitively
ageWordAt(s, i) ==
  \/ /\ ciAt(s, i, <<"y", "e", "a", "r">>)
     /\ \/ ciAt(s, skipWS(s, i + 4), <<"o", "l", "d">>)
        \/ /\ ciAt(s, i + 4, <<"s">>)
           /\ ciAt(s, skipWS(s, i + 5), <<"o", "l", "d">>)
  \/ ciAt(s, i, <<"y", "o">>)
  \/ ciAt(s, i, <<"y", "/", "o">>)

\* /(\d{1,2})\s*(?:years?\s*old|yo|y\/o)/i tried at index i: the number of
\* digits captured (two are tried before one), or 0 when there is no match.
ageAt(s, i) ==
  IF digitsAt(s, i, 2) /\ ageWordAt(s, skipWS(s, i + 2)) THEN 2
  ELSE IF digitsAt(s, i, 1) /\ ageWordAt(s, skipWS(s, i + 1)) THEN 1
  ELSE 0

\* The least element of the set of indices hits, or 0 when there is none:
\* String.prototype.match returns the leftmost match.
firstMatch(hits) ==
  IF hits = {} THEN 0 ELSE CHOOSE i \in hits : \A h \in hits : i <= h

\* new Date().getFullYear()
currentYear == now

\* The year as <<year>>, or NULL.
extractYearFromBio(bio) ==
  LET b == firstMatch({i \in 1..Len(bio) : bornAt(bio, i) # 0})
      a == firstMatch({i \in 1..Len(bio) : ageAt(bio, i) # 0})
      age == IF a = 0 THEN 0 ELSE parseInt(SubSeq(bio, a, a + ageAt(bio, a) - 1))
  IN  IF b # 0 THEN <<parseInt(SubSeq(bio, bornAt(bio, b), bornAt(bio, b) + 3))>>
      ELSE IF a # 0 /\ age > 10 /\ age < 100 THEN <<currentYear - age>>
      ELSE NULL

\* ------------------------------------------------------------------------
\* Matchers
\* ------------------------------------------------------------------------
\* The names are split into tokens without being lower-cased first
matchNameCaseSensitive(personName, profileName) ==
  LET name1 == IF personName = NONE THEN NONE ELSE trim(personName)
      name2 == IF profileName = NONE THEN NONE ELSE trim(profileName)
  IN  IF ~Truthy(name1) \/ ~Truthy(name2) THEN Zero
      ELSE
        LET p1 == filterBoolean(splitWS(name1, <<>>))
            p2 == filterBoolean(splitWS(name2, <<>>))
        IN  IF Len(p1) = 0 \/ Len(p2) = 0 THEN Zero
            ELSE IF joinSpace(p1) = joinSpace(p2) THEN One
            ELSE IF Len(p1) > 0 /\ Len(p2) > 0 /\ areNicknameVariants(p1[1], p2[1])
            THEN IF /\ Len(p1) > 1 /\ Len(p2) > 1
                    /\ RLt(Rat(8, 10), similarity(p1[Len(p1)], p2[Len(p2)]))
                 THEN Rat(95, 100)
                 ELSE Rat(7, 10)
            ELSE IF Len(p2[1]) = 1 /\ startsWith(p1[1], p2[1])
            THEN IF Len(p1) > 1 /\ Len(p2) > 1
                 THEN RAdd(Rat(5, 10),
                           RMul(similarity(p1[Len(p1)], p2[Len(p2)]), Rat(3, 10)))
                 ELSE Rat(4, 10)
            ELSE similarity(name1, name2)

matchName(personName, profileName) ==
  LET name1 == IF personName = NONE THEN NONE ELSE trim(personName)
      name2 == IF profileName = NONE THEN NONE ELSE trim(profileName)
  IN  IF ~Truthy(name1) \/ ~Truthy(name2) THEN Zero
      ELSE
        LET p1 == filterBoolean(splitWS(toLowerCase(name1), <<>>))
            p2 == filterBoolean(splitWS(toLowerCase(name2), <<>>))
        IN  IF Len(p1) = 0 \/ Len(p2) = 0 THEN Zero
            ELSE IF joinSpace(p1) = joinSpace(p2) THEN One
            ELSE IF Len(p1) > 0 /\ Len(p2) > 0 /\ areNicknameVariants(p1[1], p2[1])
            THEN IF /\ Len(p1) > 1 /\ Len(p2) > 1
                    /\ RLt(Rat(8, 10), similarity(p1[Len(p1)], p2[Len(p2)]))
                 THEN Rat(95, 100)
                 ELSE Rat(7, 10)
            ELSE IF Len(p2[1]) = 1 /\ startsWith(p1[1], p2[1])
            THEN IF Len(p1) > 1 /\ Len(p2) > 1
                 THEN RAdd(Rat(5, 10),
                           RMul(similarity(p1[Len(p1)], p2[Len(p2)]), Rat(3, 10)))
                 ELSE Rat(4, 10)
            ELSE similarity(name1, name2)

\* Containment is tested before the alias table
matchLocationContainmentFirst(personLoc, profileLoc) ==
  IF ~Truthy(personLoc) \/ ~Truthy(profileLoc) THEN Zero
  ELSE LET n1 == normalizeLocation(personLoc)
           n2 == normalizeLocation(profileLoc)
       IN  IF n1 = n2 THEN One
           ELSE IF includes(n1, n2) \/ includes(n2, n1) THEN Rat(85, 100)
           ELSE IF matchLocationAlias(personLoc, profileLoc) THEN Rat(9, 10)
           ELSE similarity(n1, n2)

matchLocation(personLoc, profileLoc) ==
  IF ~Truthy(personLoc) \/ ~Truthy(profileLoc) THEN Zero
  ELSE LET n1 == normalizeLocation(personLoc)
           n2 == normalizeLocation(profileLoc)
       IN  IF n1 = n2 THEN One
           ELSE IF matchLocationAlias(personLoc, profileLoc) THEN Rat(9, 10)
           ELSE IF includes(n1, n2) \/ includes(n2, n1) THEN Rat(85, 100)
           ELSE similarity(n1, n2)

\* words.filter(w => b.includes(w)).length
countIn(words, b) == Len(SelectSeq(words, LAMBDA w : includes(b, w)))

\* The matched tokens are divided by the number of all tokens, short ones
\* included
matchEmployerInBioAllTokens(employer, bio) ==
  IF ~Truthy(employer) \/ ~Truthy(bio) THEN Zero
  ELSE LET e == toLowerCase(employer)
           b == toLowerCase(bio)
           words == SelectSeq(splitWS(e, <<>>), LAMBDA w : Len(w) > 2)
           matched == countIn(words, b)
       IN  IF includes(b, e) THEN One
           ELSE IF matched > 0
                THEN RMul(Rat(5, 10), Rat(matched, Len(filterBoolean(splitWS(e, <<>>)))))
           ELSE Zero

matchEmployerInBio(employer, bio) ==
  IF ~Truthy(employer) \/ ~Truthy(bio) THEN Zero
  ELSE LET e == toLowerCase(employer)
           b == toLowerCase(bio)
           words == SelectSeq(splitWS(e, <<>>), LAMBDA w : Len(w) > 2)
           matched == countIn(words, b)
       IN  IF includes(b, e) THEN One
           ELSE IF matched > 0 THEN RMul(Rat(5, 10), Rat(matched, Len(words)))
           ELSE Zero

\* The whole-string similarity is not consulted
matchJobTitleInBioNoSimilarity(jobTitle, bio) ==
  IF ~Truthy(jobTitle) \/ ~Truthy(bio) THEN Zero
  ELSE LET t == toLowerCase(jobTitle)
           b == toLowerCase(bio)
           words == SelectSeq(splitWS(t, <<>>), LAMBDA w : Len(w) > 3)
           matched == countIn(words, b)
       IN  IF includes(b, t) THEN One
           ELSE IF matched > 0 THEN RMul(Rat(6, 10), Rat(matched, Len(words)))
           ELSE Zero

matchJobTitleInBio(jobTitle, bio) ==
  IF ~Truthy(jobTitle) \/ ~Truthy(bio) THEN Zero
  ELSE LET t == toLowerCase(jobTitle)
           b == toLowerCase(bio)
           words == SelectSeq(splitWS(t, <<>>), LAMBDA w : Len(w) > 3)
           matched == countIn(words, b)
       IN  IF includes(b, t) THEN One
           ELSE IF matched > 0 THEN RMul(Rat(6, 10), Rat(matched, Len(words)))
           ELSE IF RLt(Rat(5, 10), similarity(t, b))
                THEN RMul(similarity(t, b), Rat(5, 10))
                ELSE Zero

\* A "string | string[]" argument is [kind, val]: kind "undefined" (val <<>>),
\* "string" (val the string) or "array" (val the sequence of strings).
Undef == [kind |-> "undefined", val |-> <<>>]
Str(s) == [kind |-> "string", val |-> s]
Arr(a) == [kind |-> "array", val |-> a]

\* Truthiness of such an argument: every array is truthy, the empty one too.
TruthyList(v) == v.kind = "array" \/ (v.kind = "string" /\ v.val # <<>>)

\* Array.isArray(x) ? x : [x]
asList(v) == IF v.kind = "array" THEN v.val ELSE <<v.val>>

Separators == {".", "_", "-"}

\* The digits are kept
strippedKeepDigits(s) == remove(s, Separators)

\* .replace(/[._-]/g, '').replace(/\d+/g, '')
stripped(s) == remove(remove(s, Separators), Digit)

\* Every email is examined and the best tier is returned
RECURSIVE emailLoopBest(_, _, _)
emailLoopBest(list, i, username) ==
  IF i > Len(list) THEN Zero
  ELSE LET uNorm == stripped(toLowerCase(username))
           eUser == toLowerCase(beforeAt(list[i]))
           eNorm == stripped(eUser)
           here == IF eUser = toLowerCase(username) THEN One
                   ELSE IF eNorm = uNorm THEN Rat(9, 10)
                   ELSE IF includes(uNorm, eNorm) \/ includes(eNorm, uNorm) THEN Rat(7, 10)
                   ELSE Zero
           rest == emailLoopBest(list, i + 1, username)
       IN  IF RLt(here, rest) THEN rest ELSE here

RECURSIVE emailLoop(_, _, _)
emailLoop(list, i, username) ==
  IF i > Len(list) THEN Zero
  ELSE LET uNorm == stripped(toLowerCase(username))
           eUser == toLowerCase(beforeAt(list[i]))
           eNorm == stripped(eUser)
       IN  IF eUser = toLowerCase(username) THEN One
           ELSE IF eNorm = uNorm THEN Rat(9, 10)
           ELSE IF includes(uNorm, eNorm) \/ includes(eNorm, uNorm) THEN Rat(7, 10)
           ELSE emailLoop(list, i + 1, username)

\* The check of username left out of the guard
matchEmailToUsernameNoUserCheck(emails, username) ==
  IF ~TruthyList(emails) THEN Zero ELSE emailLoop(asList(emails), 1, username)

matchEmailToUsername(emails, username) ==
  IF ~TruthyList(emails) \/ ~Truthy(username) THEN Zero
  ELSE emailLoop(asList(emails), 1, username)

\* The test of at least 7 digits left out
RECURSIVE phoneLoopAnyLength(_, _, _)
phoneLoopAnyLength(list, i, bioDigits) ==
  IF i > Len(list) THEN Zero
  ELSE LET normalized == normalizePhone(list[i])
       IN  IF includes(bioDigits, normalized) THEN One
           ELSE IF includes(bioDigits, sliceLast(normalized, 7)) THEN Rat(8, 10)
           ELSE phoneLoopAnyLength(list, i + 1, bioDigits)

RECURSIVE phoneLoop(_, _, _)
phoneLoop(list, i, bioDigits) ==
  IF i > Len(list) THEN Zero
  ELSE LET normalized == normalizePhone(list[i])
       IN  IF Len(normalized) >= 7 /\ includes(bioDigits, normalized) THEN One
           ELSE IF Len(normalized) >= 7 /\ includes(bioDigits, sliceLast(normalized, 7))
                THEN Rat(8, 10)
           ELSE phoneLoop(list, i + 1, bioDigits)

matchPhoneInBio(phones, bio) ==
  IF ~TruthyList(phones) \/ ~Truthy(bio) THEN Zero
  ELSE phoneLoop(asList(phones), 1, digitsOf(bio))

matchDateOfBirth(dob, bio) ==
  IF ~Truthy(dob) \/ ~Truthy(bio) THEN Zero
  ELSE LET personDate == parseDate(dob)
       IN  IF personDate = NULL THEN Zero
           ELSE LET personYear == getFullYear(personDate)
                    bioYear == extractYearFromBio(bio)
                IN  IF bioYear # NULL /\ bioYear[1] # 0
                    THEN IF bioYear[1] = personYear THEN One
                         ELSE IF Abs(bioYear[1] - personYear) <= 1 THEN Rat(7, 10)
                         ELSE Zero
                    ELSE Zero

\* ------------------------------------------------------------------------
\* Weights and scoring
\* ------------------------------------------------------------------------
\* The weights of location and employer exchanged
WEIGHTSSwapped ==
  [name |-> Rat(30, 100), location |-> Rat(18, 100), employer |-> Rat(12, 100),
   emailUsername |-> Rat(18, 100), jobTitle |-> Rat(10, 100), phone |-> Rat(7, 100),
   dateOfBirth |-> Rat(5, 100)]

WEIGHTS ==
  [name |-> Rat(30, 100), location |-> Rat(12, 100), employer |-> Rat(18, 100),
   emailUsername |-> Rat(18, 100), jobTitle |-> Rat(10, 100), phone |-> Rat(7, 100),
   dateOfBirth |-> Rat(5, 100)]

\* A variant of displayNameOf that prefers display_name.
displayNameOfSnakeFirst(profile) ==
  IF Truthy(profile.display_name) THEN profile.display_name ELSE profile.displayName

\* profile.displayName || profile.display_name
displayNameOf(profile) ==
  IF Truthy(profile.displayName) THEN profile.displayName ELSE profile.display_name

\* The seven "if" blocks of calculateMatchScore in source order: the factor
\* key, whether the block is entered, the matcher's value and the weight.
factorBlocks(person, profile) ==
  <<[key |-> "name_match",
     run |-> Truthy(person.name) /\ Truthy(displayNameOf(profile)),
     s |-> matchName(person.name, displayNameOf(profile)),
     w |-> WEIGHTS.name],
    [key |-> "location_match",
     run |-> Truthy(person.location) /\ Truthy(profile.location),
     s |-> matchLocation(person.location, profile.location),
     w |-> WEIGHTS.location],
    [key |-> "employer_in_bio",
     run |-> Truthy(person.employer) /\ Truthy(profile.bio),
     s |-> matchEmployerInBio(person.employer, profile.bio),
     w |-> WEIGHTS.employer],
    [key |-> "job_title_in_bio",
     run |-> Truthy(person.jobTitle) /\ Truthy(profile.bio),
     s |-> matchJobTitleInBio(person.jobTitle, profile.bio),
     w |-> WEIGHTS.jobTitle],
    [key |-> "email_username_match",
     run |-> TruthyList(person.email) /\ Truthy(profile.username),
     s |-> matchEmailToUsername(person.email, profile.username),
     w |-> WEIGHTS.emailUsername],
    [key |-> "phone_in_bio",
     run |-> TruthyList(person.phone) /\ Truthy(profile.bio),
     s |-> matchPhoneInBio(person.phone, profile.bio),
     w |-> WEIGHTS.phone],
    [key |-> "dob_match",
     run |-> Truthy(person.dateOfBirth) /\ Truthy(profile.bio),
     s |-> matchDateOfBirth(person.dateOfBirth, profile.bio),
     w |-> WEIGHTS.dateOfBirth]>>

\* The running totals <<score, weight>> after the first n blocks.
RECURSIVE accumulate(_, _)
accumulate(blocks, n) ==
  IF n = 0 THEN <<Zero, Zero>>
  ELSE LET acc == accumulate(blocks, n - 1)
       IN  IF blocks[n].run
           THEN <<RAdd(acc[1], RMul(blocks[n].s, blocks[n].w)), RAdd(acc[2], blocks[n].w)>>
           ELSE acc

\* A factor is recorded only when its matcher's value is not 0
resultOfNonZero(profile, blocks, acc) ==
  [profile |-> profile,
   score |-> IF RLt(Zero, acc[2])
             THEN Rat(MathRound(RMul(RDiv(acc[1], acc[2]), Rat(100, 1))), 100)
             ELSE Zero,
   factors |-> [k \in {blocks[n].key :
                         n \in {i \in 1..Len(blocks) : blocks[i].run /\ blocks[i].s # Zero}} |->
                  blocks[CHOOSE n \in 1..Len(blocks) : blocks[n].key = k].s]]

\* The result built from the blocks: the factors recorded by the blocks that
\* ran, and the rounded quotient of the totals.
resultOf(profile, blocks, acc) ==
  [profile |-> profile,
   score |-> IF RLt(Zero, acc[2])
             THEN Rat(MathRound(RMul(RDiv(acc[1], acc[2]), Rat(100, 1))), 100)
             ELSE Zero,
   factors |-> [k \in {blocks[n].key : n \in {i \in 1..Len(blocks) : blocks[i].run}} |->
                  blocks[CHOOSE n \in 1..Len(blocks) : blocks[n].key = k].s]]

\* The total is divided by the sum of all seven weights, applicable or not
scoreBlocksNoRenorm(profile, blocks) ==
  resultOf(profile, blocks,
           <<accumulate(blocks, Len(blocks))[1],
             IF RLt(Zero, accumulate(blocks, Len(blocks))[2]) THEN One ELSE Zero>>)

\* The running score is not reset between calls: it starts from the score
\* the previous call returned
scoreBlocksCarry(profile, blocks) ==
  resultOf(profile, blocks,
           <<RAdd(accumulate(blocks, Len(blocks))[1],
                  IF pc = "done" /\ call.op = "calculateMatchScore" THEN result.score ELSE Zero),
             accumulate(blocks, Len(blocks))[2]>>)

scoreBlocks(profile, blocks) == resultOf(profile, blocks, accumulate(blocks, Len(blocks)))

calculateMatchScore(person, profile) == scoreBlocks(profile, factorBlocks(person, profile))

\* Array.prototype.sort with the comparator (a, b) => b.score - a.score.  The
\* sort is stable (ECMAScript 2019, Node 11 and later): the result is the
\* one an insertion sort gives that moves an element left only past elements
\* the comparator puts strictly after it.
\* An unstable sort: an element also moves left past elements of equal score
RECURSIVE insertSortedPastTies(_, _)
insertSortedPastTies(sorted, x) ==
  IF sorted = <<>> THEN <<x>>
  ELSE IF RLe(sorted[Len(sorted)].score, x.score)
       THEN Append(insertSortedPastTies(SubSeq(sorted, 1, Len(sorted) - 1), x),
                   sorted[Len(sorted)])
       ELSE Append(sorted, x)

RECURSIVE insertSorted(_, _)
insertSorted(sorted, x) ==
  IF sorted = <<>> THEN <<x>>
  ELSE IF RLt(sorted[Len(sorted)].score, x.score)
       THEN Append(insertSorted(SubSeq(sorted, 1, Len(sorted) - 1), x), sorted[Len(sorted)])
       ELSE Append(sorted, x)

RECURSIVE sortByScore(_, _)
sortByScore(rs, n) ==
  IF n = 0 THEN <<>> ELSE insertSorted(sortByScore(rs, n - 1), rs[n])

\* The results in input order, the sort left out
matchProfilesUnsorted(person, profiles) ==
  [i \in 1..Len(profiles) |-> calculateMatchScore(person, profiles[i])]

matchProfiles(person, profiles) ==
  LET scored == [i \in 1..Len(profiles) |-> calculateMatchScore(person, profiles[i])]
  IN  sortByScore(scored, Len(scored))

\* ------------------------------------------------------------------------
\* Inputs: the strings the calls are made with
\* ------------------------------------------------------------------------
MaxStrLen == 1
MaxList == 2
MaxProfiles == 2
MaxTicks == 1

\* Every string over the alphabet of length at most n
Strs(alphabet, n) == UNION {[1..k -> alphabet] : k \in 0..n}

\* Every array of at most n elements of S
Arrays(S, n) == UNION {[1..k -> S] : k \in 0..n}

NameDict ==
  {<<"J", "a", "n", "e", " ", "D", "o", "e">>,   \* "Jane Doe"
   <<"j", "a", "n", "e", " ", " ", "d", "o", "e">>,   \* "jane  doe"
   <<"J", "A", "N", "E", "\t", "D", "O", "E">>,   \* "JANE\tDOE"
   <<" ", "J", "a", "n", "e", " ", "D", "o", "e", " ">>,   \* " Jane Doe "
   <<"J", "n", "a", "e", " ", "D", "o", "e">>,   \* "Jnae Doe"
   <<"R", "o", "b", "e", "r", "t", " ", "J", "o", "h", "n", "s", "o", "n">>,   \* "Robert Johnson"
   <<"B", "o", "b", " ", "J", "o", "h", "n", "s", "o", "n">>,   \* "Bob Johnson"
   <<"R", "o", "b", " ", "J", "o", "n", "a", "s">>,   \* "Rob Jonas"
   <<"B", "O", "B", " ", "J", "o", "h", "n", "s", "e", "n">>,   \* "BOB Johnsen"
   <<"B", "o", "b", " ", "J", "o", "n", "e", "s">>,   \* "Bob Jones"
   <<"b", "o", "b">>,   \* "bob"
   <<"R", "o", "b", "e", "r", "t">>,   \* "Robert"
   <<"W", "i", "l", "l", "i", "a", "m", " ", "S", "m", "i", "t", "h">>,   \* "William Smith"
   <<"B", "i", "l", "l", " ", "S", "m", "i", "t", "h">>,   \* "Bill Smith"
   <<"J", ".", " ", "D", "o", "e">>,   \* "J. Doe"
   <<"J", " ", "D", "o", "e">>,   \* "J Doe"
   <<"j">>,   \* "j"
   <<"M", "a", "d", "o", "n", "n", "a">>,   \* "Madonna"
   <<" ", " ", " ">>,   \* "   "
   <<"x", " ", "d", "o", "e">>}   \* "x doe"

NameChars == {"a", "B", " ", "I_DOT"}

Names == NameDict \cup Strs(NameChars, MaxStrLen)

Locations ==
  {<<"S", "a", "n", " ", "F", "r", "a", "n", "c", "i", "s", "c", "o", ",", " ", "C", "A">>,   \* "San Francisco, CA"
   <<"s", "a", "n", " ", "f", "r", "a", "n", "c", "i", "s", "c", "o">>,   \* "san francisco"
   <<"S", "F">>,   \* "SF"
   <<"B", "a", "y", " ", "A", "r", "e", "a">>,   \* "Bay Area"
   <<"N", "Y", "C">>,   \* "NYC"
   <<"N", "e", "w", " ", "Y", "o", "r", "k">>,   \* "New York"
   <<"L", "A">>,   \* "LA"
   <<"D", "a", "l", "l", "a", "s">>,   \* "Dallas"
   <<"T", "o", "k", "y", "o", ",", " ", "J", "a", "p", "a", "n">>,   \* "Tokyo, Japan"
   <<"L", "o", "n", "d", "o", "n", ",", " ", "U", "K">>,   \* "London, UK"
   <<"L", "o", "n", "d", "o", "n">>,   \* "London"
   <<>>,   \* ""
   <<".", " ", ",">>}   \* ". ,"

Bios ==
  {<<>>,   \* ""
   <<"B", "i", "g", " ", "f", "a", "n", " ", "o", "f", " ", "A", "c", "m", "e">>,   \* "Big fan of Acme"
   <<"S", "W", "E", " ", "a", "t", " ", "G", "o", "o", "g", "l", "e">>,   \* "SWE at Google"
   <<"C", "F", "O">>,   \* "CFO"
   <<"C", "l", "a", "s", "s", " ", "o", "f", " ", "1", "9", "9", "0">>,   \* "Class of 1990"
   <<"b", "o", "r", "n", " ", "0", "0", "0", "0">>,   \* "born 0000"
   <<"9", "9", " ", "y", "e", "a", "r", "s", " ", "o", "l", "d">>,   \* "99 years old"
   <<"3", "0", " ", "y", "e", "a", "r", "s", " ", "o", "l", "d">>,   \* "30 years old"
   <<"3", "0", "y", "o", ",", " ", "b", "o", "r", "n", " ", "1", "9", "9", "0">>,   \* "30yo, born 1990"
   <<"E", "n", "g", "i", "n", "e", "e", "r", " ", "a", "t", " ", "A", "c", "m", "e", " ", "C", "o", "r", "p">>,   \* "Engineer at Acme Corp"
   <<"S", "o", "f", "t", "w", "a", "r", "e", " ", "E", "n", "g", "i", "n", "e", "e", "r", " ", "a", "t", " ", "G", "o", "o", "g", "l", "e">>,   \* "Software Engineer at Google"
   <<"B", "o", "r", "n", " ", "1", "9", "9", "0", ",", " ", "c", "a", "l", "l", " ", "5", "5", "5", "1", "2", "3", "4", "5", "6", "7">>,   \* "Born 1990, call 5551234567"
   <<"b", "o", "r", "n", " ", "i", "n", " ", "1", "9", "9", "1">>,   \* "born in 1991"
   <<"3", "0", "y", "o", " ", "d", "e", "v">>,   \* "30yo dev"
   <<"3", "0", " ", "Y", "e", "a", "r", "s", " ", "O", "l", "d">>,   \* "30 Years Old"
   <<"T", "e", "l", " ", "1", "2", "3", "-", "4", "5", "6", "7">>,   \* "Tel 123-4567"
   <<"9", "y", "o">>,   \* "9yo"
   <<"S", "r", " ", "S", "o", "f", "t", "w", "a", "r", " ", "E", "n", "g", "i", "n", "e", "r">>}   \* "Sr Softwar Enginer"

Employers ==
  {<<>>,   \* ""
   <<"A", "c", "m", "e", " ", "C", "o", "r", "p">>,   \* "Acme Corp"
   <<"A", "c", "m", "e", " ", "C", "o", "r", "p", "o", "r", "a", "t", "i", "o", "n">>,   \* "Acme Corporation"
   <<"G", "o", "o", "g", "l", "e">>,   \* "Google"
   <<"A", "T">>,   \* "AT"
   <<"B", "i", "g", " ", "C", "o">>}   \* "Big Co"

JobTitles ==
  {<<>>,   \* ""
   <<"S", "o", "f", "t", "w", "a", "r", "e", " ", "E", "n", "g", "i", "n", "e", "e", "r">>,   \* "Software Engineer"
   <<"E", "n", "g", "i", "n", "e", "e", "r">>,   \* "Engineer"
   <<"C", "E", "O">>,   \* "CEO"
   <<"D", "e", "s", "i", "g", "n", "e", "r">>,   \* "Designer"
   <<"S", "r", " ", "S", "o", "f", "t", "w", "a", "r", "e", " ", "E", "n", "g", "i", "n", "e", "e", "r">>}   \* "Sr Software Engineer"

Emails ==
  {<<"j", "a", "n", "e", "d", "o", "e", "@", "x", ".", "c", "o", "m">>,   \* "janedoe@x.com"
   <<"j", "o", "h", "n", ".", "d", "o", "e", "@", "e", "m", "a", "i", "l", ".", "c", "o", "m">>,   \* "john.doe@email.com"
   <<"J", "A", "N", "E", "D", "O", "E">>,   \* "JANEDOE"
   <<"j", "a", "n", "e", ".", "d", "o", "e", "@", "x", ".", "c", "o", "m">>,   \* "jane.doe@x.com"
   <<"w", "o", "r", "k", "@", "c", "o", ".", "c", "o", "m">>,   \* "work@co.com"
   <<"1", "2", "3", "@", "x", ".", "c", "o", "m">>,   \* "123@x.com"
   <<"j", "a", "n", "e">>,   \* "jane"
   <<>>}   \* ""

Usernames ==
  {<<"j", "a", "n", "e", "d", "o", "e">>,   \* "janedoe"
   <<"j", "o", "h", "n", "d", "o", "e">>,   \* "johndoe"
   <<"j", "a", "n", "e", "_", "d", "o", "e", "1">>,   \* "jane_doe1"
   <<"J", "a", "n", "e", "D", "o", "e">>,   \* "JaneDoe"
   <<"z", "z">>,   \* "zz"
   <<"1", "2", "3">>,   \* "123"
   <<>>}   \* ""

Phones ==
  {<<"(", "5", "5", "5", ")", " ", "1", "2", "3", "-", "4", "5", "6", "7">>,   \* "(555) 123-4567"
   <<"+", "1", "-", "5", "5", "5", "-", "1", "2", "3", "-", "4", "5", "6", "7">>,   \* "+1-555-123-4567"
   <<"1", "2", "3">>,   \* "123"
   <<"5", "5", "5", "-", "1", "1", "1", "-", "1", "1", "1", "1">>,   \* "555-111-1111"
   <<>>}   \* ""

Dobs ==
  {<<>>,   \* ""
   <<"0", "0", "0", "1", "-", "0", "6", "-", "1", "5">>,   \* "0001-06-15"
   <<"1", "9", "2", "7", "-", "0", "6", "-", "1", "5">>,   \* "1927-06-15"
   <<"1", "9", "9", "6", "-", "0", "1", "-", "0", "1">>,   \* "1996-01-01"
   <<"1", "9", "9", "0", "-", "0", "5", "-", "1", "5">>,   \* "1990-05-15"
   <<"1", "9", "9", "0", "-", "0", "1", "-", "0", "1">>,   \* "1990-01-01"
   <<"0", "5", "/", "1", "5", "/", "1", "9", "9", "0">>,   \* "05/15/1990"
   <<"1", "9", "9", "1", "-", "0", "1", "-", "0", "1">>,   \* "1991-01-01"
   <<"1", "9", "9", "6", "-", "0", "6", "-", "0", "1">>,   \* "1996-06-01"
   <<"1", "9", "9", "7", "-", "0", "1", "-", "0", "1">>,   \* "1997-01-01"
   <<"n", "o", "t", "-", "a", "-", "d", "a", "t", "e">>,   \* "not-a-date"
   <<"1", "9", "9", "0", "-", "1", "3", "-", "0", "1">>}   \* "1990-13-01"

\* An optional string argument: undefined or one of S
Opt(S) == {NONE} \cup S

\* A "string | string[]" argument over S: undefined, a string, or an array
OptList(S) == {Undef} \cup {Str(s) : s \in S} \cup {Arr(a) : a \in Arrays(S, MaxList)}

\* The hours local time is ahead of UTC in the environments considered
TimeZones == {-5, 0, 9}

\* The years the clock runs through
Years == 2026..(2026 + MaxTicks)

\* ------------------------------------------------------------------------
\* State: the clock (now, the current local year), the timezone of the
\* process (tz), and the call in progress: pc is "idle" or "done", call the
\* function and its arguments, at the year the call was made in, result the
\* value returned.
\* ------------------------------------------------------------------------
NoCall == [op |-> "none", a |-> <<>>, b |-> <<>>]

Idle == pc = "idle" /\ call = NoCall /\ at = 0 /\ result = <<>>

Init == now = 2026 /\ tz \in TimeZones /\ Idle

\* The caller takes the result; nothing of the call is kept.
Return ==
  /\ pc = "done"
  /\ pc' = "idle" /\ call' = NoCall /\ at' = 0 /\ result' = <<>>
  /\ UNCHANGED <<now, tz>>

\* A new year begins between two calls.
Tick ==
  /\ pc = "idle"
  /\ now + 1 \in Years
  /\ now' = now + 1
  /\ UNCHANGED <<tz, pc, call, at, result>>

CallMatchName ==
  /\ pc = "idle"
  /\ \E a \in Opt(Names), b \in Opt(Names) :
       /\ call' = [op |-> "matchName", a |-> a, b |-> b]
       /\ result' = matchName(a, b)
  /\ pc' = "done" /\ at' = now
  /\ UNCHANGED <<now, tz>>

CallMatchLocation ==
  /\ pc = "idle"
  /\ \E a \in Opt(Locations), b \in Opt(Locations) :
       /\ call' = [op |-> "matchLocation", a |-> a, b |-> b]
       /\ result' = matchLocation(a, b)
  /\ pc' = "done" /\ at' = now
  /\ UNCHANGED <<now, tz>>

CallMatchEmployerInBio ==
  /\ pc = "idle"
  /\ \E a \in Opt(Employers), b \in Opt(Bios) :
       /\ call' = [op |-> "matchEmployerInBio", a |-> a, b |-> b]
       /\ result' = matchEmployerInBio(a, b)
  /\ pc' = "done" /\ at' = now
  /\ UNCHANGED <<now, tz>>

CallMatchJobTitleInBio ==
  /\ pc = "idle"
  /\ \E a \in Opt(JobTitles), b \in Opt(Bios) :
       /\ call' = [op |-> "matchJobTitleInBio", a |-> a, b |-> b]
       /\ result' = matchJobTitleInBio(a, b)
  /\ pc' = "done" /\ at' = now
  /\ UNCHANGED <<now, tz>>

CallMatchEmailToUsername ==
  /\ pc = "idle"
  /\ \E a \in OptList(Emails), b \in Opt(Usernames) :
       /\ call' = [op |-> "matchEmailToUsername", a |-> a, b |-> b]
       /\ result' = matchEmailToUsername(a, b)
  /\ pc' = "done" /\ at' = now
  /\ UNCHANGED <<now, tz>>

CallMatchPhoneInBio ==
  /\ pc = "idle"
  /\ \E a \in OptList(Phones), b \in Opt(Bios) :
       /\ call' = [op |-> "matchPhoneInBio", a |-> a, b |-> b]
       /\ result' = matchPhoneInBio(a, b)
  /\ pc' = "done" /\ at' = now
  /\ UNCHANGED <<now, tz>>

CallMatchDateOfBirth ==
  /\ pc = "idle"
  /\ \E a \in Opt(Dobs), b \in Opt(Bios) :
       /\ call' = [op |-> "matchDateOfBirth", a |-> a, b |-> b]
       /\ result' = matchDateOfBirth(a, b)
  /\ pc' = "done" /\ at' = now
  /\ UNCHANGED <<now, tz>>

\* The seven field matchers, called on their own.
NextMatchers ==
  \/ CallMatchName
  \/ CallMatchLocation
  \/ CallMatchEmployerInBio
  \/ CallMatchJobTitleInBio
  \/ CallMatchEmailToUsername
  \/ CallMatchPhoneInBio
  \/ CallMatchDateOfBirth
  \/ Return
  \/ Tick

SpecMatchers == Init /\ [][NextMatchers]_vars

Matchers ==
  {"matchName", "matchLocation", "matchEmployerInBio", "matchJobTitleInBio",
   "matchEmailToUsername", "matchPhoneInBio", "matchDateOfBirth"}

\* ------------------------------------------------------------------------
\* Inputs: persons and profiles
\* ------------------------------------------------------------------------
\* The person and the profile of the end-to-end example: every factor applies.
FullPerson ==
  [name |-> <<"J", "a", "n", "e", " ", "D", "o", "e">>,
   location |-> <<"S", "a", "n", " ", "F", "r", "a", "n", "c", "i", "s", "c", "o", ",", " ", "C", "A">>,
   employer |-> <<"A", "c", "m", "e", " ", "C", "o", "r", "p">>,
   jobTitle |-> <<"E", "n", "g", "i", "n", "e", "e", "r">>,
   email |-> Str(<<"j", "a", "n", "e", "d", "o", "e", "@", "x", ".", "c", "o", "m">>),
   phone |-> Str(<<"(", "5", "5", "5", ")", " ", "1", "2", "3", "-", "4", "5", "6", "7">>),
   dateOfBirth |-> <<"1", "9", "9", "0", "-", "0", "5", "-", "1", "5">>]

NoPerson ==
  [name |-> NONE, location |-> NONE, employer |-> NONE, jobTitle |-> NONE,
   email |-> Undef, phone |-> Undef, dateOfBirth |-> NONE]

FullProfile ==
  [platform |-> "linkedin",
   username |-> <<"j", "a", "n", "e", "d", "o", "e">>,
   displayName |-> <<"J", "a", "n", "e", " ", "D", "o", "e">>,
   display_name |-> <<"B", "o", "b", " ", "J", "o", "n", "e", "s">>,
   bio |-> <<"E", "n", "g", "i", "n", "e", "e", "r", " ", "a", "t", " ", "A", "c", "m", "e", " ", "C", "o", "r", "p", ",", " ", "b", "o", "r", "n", " ", "1", "9", "9", "0", ",", " ", "5", "5", "5", "1", "2", "3", "4", "5", "6", "7">>,
   location |-> <<"S", "a", "n", " ", "F", "r", "a", "n", "c", "i", "s", "c", "o", ",", " ", "C", "A">>]

\* The least a profile holds: platform and username are required strings.
NoProfile ==
  [platform |-> "twitter", username |-> <<"z", "z">>, displayName |-> NONE,
   display_name |-> NONE, bio |-> NONE, location |-> NONE]

\* The record that takes the fields of S from full and the others from none
Masked(full, none, S) == [f \in DOMAIN full |-> IF f \in S THEN full[f] ELSE none[f]]

SpecialPersons ==
  {[NoPerson EXCEPT !.name = <<>>],
   [FullPerson EXCEPT !.name = <<>>],
   [NoPerson EXCEPT !.name = <<"I_DOT">>],
   [FullPerson EXCEPT !.name = <<"I_DOT">>],
   [FullPerson EXCEPT !.name = <<"B", "o", "b", " ", "J", "o", "n", "e", "s">>],
   [NoPerson EXCEPT !.name = <<"R", "o", "b", "e", "r", "t", " ", "J", "o", "n", "e", "s">>],
   [NoPerson EXCEPT !.email = Arr(<<>>)],
   [FullPerson EXCEPT !.email = Arr(<<>>)],
   [FullPerson EXCEPT !.email = Arr(<<<<"w", "o", "r", "k", "@", "c", "o", ".", "c", "o", "m">>, <<"j", "a", "n", "e", "d", "o", "e", "@", "x", ".", "c", "o", "m">>>>)],
   [NoPerson EXCEPT !.phone = Arr(<<>>)],
   [NoPerson EXCEPT !.location = <<>>],
   [NoPerson EXCEPT !.location = <<"B", "a", "y", " ", "A", "r", "e", "a">>],
   [FullPerson EXCEPT !.employer = <<"A", "c", "m", "e", " ", "I", "n", "c">>],
   [FullPerson EXCEPT !.dateOfBirth = <<"1", "9", "9", "6", "-", "0", "6", "-", "0", "1">>],
   [NoPerson EXCEPT !.dateOfBirth = <<"1", "9", "9", "6", "-", "0", "6", "-", "0", "1">>],
   [NoPerson EXCEPT !.dateOfBirth = <<"1", "9", "9", "6", "-", "0", "1", "-", "0", "1">>]}

Persons ==
  {Masked(FullPerson, NoPerson, S) : S \in SUBSET (DOMAIN FullPerson)} \cup SpecialPersons

SpecialProfiles ==
  {[NoProfile EXCEPT !.username = <<>>],
   [NoProfile EXCEPT !.displayName = <<"a">>],
   [NoProfile EXCEPT !.displayName = <<>>, !.display_name = <<"J", "a", "n", "e", " ", "D", "o", "e">>],
   [NoProfile EXCEPT !.bio = <<>>],
   [NoProfile EXCEPT !.bio = <<"3", "0", "y", "o", " ", "d", "e", "v">>],
   [FullProfile EXCEPT !.bio = <<"3", "0", "y", "o", " ", "d", "e", "v">>],
   [FullProfile EXCEPT !.bio = <<"C", "o", "f", "f", "e", "e", " ", "a", "t", " ", "a", "c", "m", "e">>, !.displayName = <<"J", " ", "D", "o", "e">>]}

Profiles ==
  {Masked(FullProfile, NoProfile, S) :
     S \in SUBSET {"displayName", "display_name", "bio", "location"}}
  \cup {Masked(FullProfile, NoProfile, {"username", "platform"})}
  \cup SpecialProfiles

\* The persons and candidates the ranker is called with
RankPersons ==
  {[NoPerson EXCEPT !.name = <<"J", "a", "n", "e", " ", "D", "o", "e">>],
   [NoPerson EXCEPT !.name = <<"J", "a", "n", "e", " ", "D", "o", "e">>, !.location = <<"B", "a", "y", " ", "A", "r", "e", "a">>],
   [NoPerson EXCEPT !.dateOfBirth = <<"1", "9", "9", "6", "-", "0", "6", "-", "0", "1">>]}

RankProfiles ==
  {[NoProfile EXCEPT !.displayName = <<"J", "a", "n", "e", " ", "D", "o", "e">>],
   [NoProfile EXCEPT !.displayName = <<"J", "a", "n", "e", " ", "D", "o", "e">>, !.platform = "linkedin"],
   [NoProfile EXCEPT !.displayName = <<"J", " ", "D", "o", "e">>, !.location = <<"S", "a", "n", " ", "F", "r", "a", "n", "c", "i", "s", "c", "o", ",", " ", "C", "A">>],
   [NoProfile EXCEPT !.displayName = <<"B", "o", "b", " ", "J", "o", "n", "e", "s">>, !.location = <<"B", "a", "y", " ", "A", "r", "e", "a">>],
   [NoProfile EXCEPT !.bio = <<"3", "0", "y", "o", " ", "d", "e", "v">>],
   NoProfile}

CallCalculateMatchScore ==
  /\ pc = "idle"
  /\ \E a \in Persons, b \in Profiles :
       /\ call' = [op |-> "calculateMatchScore", a |-> a, b |-> b]
       /\ result' = calculateMatchScore(a, b)
  /\ pc' = "done" /\ at' = now
  /\ UNCHANGED <<now, tz>>

CallMatchProfiles ==
  /\ pc = "idle"
  /\ \E a \in RankPersons, b \in Arrays(RankProfiles, MaxProfiles) :
       /\ call' = [op |-> "matchProfiles", a |-> a, b |-> b]
       /\ result' = matchProfiles(a, b)
  /\ pc' = "done" /\ at' = now
  /\ UNCHANGED <<now, tz>>

\* The aggregator and the ranker.
Next ==
  \/ CallCalculateMatchScore
  \/ CallMatchProfiles
  \/ Return
  \/ Tick

Spec == Init /\ [][Next]_vars

\* ------------------------------------------------------------------------
\* Repeated calls: a call may follow a call, and the year may end between
\* them, the state holding the latest call, the year it was made in and
\* its result.
\* ------------------------------------------------------------------------
PurePersons ==
  {[NoPerson EXCEPT !.name = <<"J", "a", "n", "e", " ", "D", "o", "e">>],
   [NoPerson EXCEPT !.name = <<"J", "a", "n", "e", " ", "D", "o", "e">>, !.dateOfBirth = <<"1", "9", "9", "6", "-", "0", "6", "-", "0", "1">>]}

PureProfiles ==
  {[NoProfile EXCEPT !.displayName = <<"J", " ", "D", "o", "e">>],
   [NoProfile EXCEPT !.displayName = <<"J", "a", "n", "e", " ", "D", "o", "e">>, !.bio = <<"3", "0", "y", "o", " ", "d", "e", "v">>],
   [NoProfile EXCEPT !.bio = <<"B", "o", "r", "n", " ", "1", "9", "9", "0">>]}

ScoreAgain ==
  /\ \E a \in PurePersons, b \in PureProfiles :
       /\ call' = [op |-> "calculateMatchScore", a |-> a, b |-> b]
       /\ result' = calculateMatchScore(a, b)
  /\ pc' = "done" /\ at' = now
  /\ UNCHANGED <<now, tz>>

RankAgain ==
  /\ \E a \in PurePersons, b \in Arrays(PureProfiles, MaxProfiles) :
       /\ call' = [op |-> "matchProfiles", a |-> a, b |-> b]
       /\ result' = matchProfiles(a, b)
  /\ pc' = "done" /\ at' = now
  /\ UNCHANGED <<now, tz>>

YearEnds ==
  /\ now + 1 \in Years
  /\ now' = now + 1
  /\ UNCHANGED <<tz, pc, call, at, result>>

NextPure ==
  \/ ScoreAgain
  \/ RankAgain
  \/ YearEnds

SpecPure == Init /\ [][NextPure]_vars


\* ------------------------------------------------------------------------
\* Properties of the aggregator (specification Spec)
\* ------------------------------------------------------------------------
\* The seven factor keys.
FactorKeys ==
  {"name_match", "location_match", "employer_in_bio", "job_title_in_bio",
   "email_username_match", "phone_in_bio", "dob_match"}

\* The documented weights, in hundredths.
DocWeight ==
  [name_match |-> 30, location_match |-> 12, employer_in_bio |-> 18,
   email_username_match |-> 18, job_title_in_bio |-> 10, phone_in_bio |-> 7,
   dob_match |-> 5]

\* A string operand is present when it is neither undefined nor empty; a
\* string-or-list operand when it is neither undefined nor the empty string
\* (an empty list is a value that is there).
PresentStr(v) == v # NONE /\ Len(v) > 0
PresentList(v) == v # Undef /\ v # Str(<<>>)

\* The profile's display name: displayName, else display_name.
DocDisplayName(profile) ==
  IF PresentStr(profile.displayName) THEN profile.displayName ELSE profile.display_name

\* Both operands of factor k are present.
Applicable(k, person, profile) ==
  CASE k = "name_match" -> PresentStr(person.name) /\ PresentStr(DocDisplayName(profile))
    [] k = "location_match" -> PresentStr(person.location) /\ PresentStr(profile.location)
    [] k = "employer_in_bio" -> PresentStr(person.employer) /\ PresentStr(profile.bio)
    [] k = "job_title_in_bio" -> PresentStr(person.jobTitle) /\ PresentStr(profile.bio)
    [] k = "email_username_match" -> PresentList(person.email) /\ PresentStr(profile.username)
    [] k = "phone_in_bio" -> PresentList(person.phone) /\ PresentStr(profile.bio)
    [] k = "dob_match" -> PresentStr(person.dateOfBirth) /\ PresentStr(profile.bio)

\* The value of factor k's matcher on the pair.
FactorScore(k, person, profile) ==
  CASE k = "name_match" -> matchName(person.name, DocDisplayName(profile))
    [] k = "location_match" -> matchLocation(person.location, profile.location)
    [] k = "employer_in_bio" -> matchEmployerInBio(person.employer, profile.bio)
    [] k = "job_title_in_bio" -> matchJobTitleInBio(person.jobTitle, profile.bio)
    [] k = "email_username_match" -> matchEmailToUsername(person.email, profile.username)
    [] k = "phone_in_bio" -> matchPhoneInBio(person.phone, profile.bio)
    [] k = "dob_match" -> matchDateOfBirth(person.dateOfBirth, profile.bio)

ApplicableKeys(person, profile) == {k \in FactorKeys : Applicable(k, person, profile)}

\* The sum over the keys of S of f[k].
RECURSIVE SumOver(_, _)
SumOver(S, f) ==
  IF S = {} THEN Zero
  ELSE LET k == CHOOSE x \in S : TRUE IN RAdd(f[k], SumOver(S \ {k}, f))

\* x rounded to two decimals, halves upwards.
Round2(x) == Rat((200 * x[1] + x[2]) \div (2 * x[2]), 100)

\* The documented overall score of the pair.
DocScore(person, profile) ==
  LET S == ApplicableKeys(person, profile)
      num == SumOver(S, [k \in S |-> RMul(FactorScore(k, person, profile), Rat(DocWeight[k], 100))])
      den == SumOver(S, [k \in S |-> Rat(DocWeight[k], 100)])
  IN  IF S = {} THEN Zero ELSE Round2(RDiv(num, den))

Scored == pc = "done" /\ call.op = "calculateMatchScore"

\* C1: when at least one factor has both operands present and every
\* applicable matcher returns 1, calculateMatchScore returns the score 1,
\* whichever other fields are absent.
RenormalizedToOne ==
  Scored =>
    LET S == ApplicableKeys(call.a, call.b)
    IN  (S # {} /\ \A k \in S : FactorScore(k, call.a, call.b) = One) =>
          result.score = One

\* A person with only the name set, matched perfectly: score 1 from the
\* name factor alone.
NameOnlyScoresOne ==
  /\ Scored
  /\ call.a = [NoPerson EXCEPT !.name = <<"J", "a", "n", "e", " ", "D", "o", "e">>]
  /\ DOMAIN result.factors = {"name_match"}
  /\ result.factors.name_match = One
  /\ result.score = One

\* C2: the score of calculateMatchScore is the weighted mean of the
\* applicable factors under the documented weights (which sum to 1),
\* rounded to two decimals, and 0 when no factor is applicable.
ScoreIsWeightedMean ==
  /\ SumOver(FactorKeys, [k \in FactorKeys |-> Rat(DocWeight[k], 100)]) = One
  /\ Scored => result.score = DocScore(call.a, call.b)

\* Several factors of different values and weights enter one score.
MixedFactorsScored ==
  /\ Scored
  /\ Cardinality(DOMAIN result.factors) >= 3
  /\ \E j, k \in DOMAIN result.factors :
       /\ result.factors[j] # result.factors[k]
       /\ DocWeight[j] # DocWeight[k]
  /\ result.score # Zero /\ result.score # One
  /\ \A k \in DOMAIN result.factors : result.factors[k] # result.score

\* No factor is applicable and the score is 0.
NoFactorScoresZero ==
  Scored /\ ApplicableKeys(call.a, call.b) = {} /\ result.score = Zero

\* C5: the factors of a result are exactly the keys whose two operands are
\* both present (not undefined, not the empty string), each with its
\* matcher's value: a value of 0 is recorded, a factor with a missing
\* operand is not.
FactorsAreApplicable ==
  Scored =>
    /\ DOMAIN result.factors = ApplicableKeys(call.a, call.b)
    /\ \A k \in DOMAIN result.factors : result.factors[k] = FactorScore(k, call.a, call.b)

\* A factor recorded with value 0 beside a factor that is left out.
ZeroFactorRecorded ==
  /\ Scored
  /\ \E k \in DOMAIN result.factors : result.factors[k] = Zero
  /\ \E k \in FactorKeys : k \notin DOMAIN result.factors


\* ------------------------------------------------------------------------
\* Properties of the field matchers (specification SpecMatchers)
\* ------------------------------------------------------------------------
Matched(op) == pc = "done" /\ call.op = op

\* C3: every field matcher returns a value between 0 and 1 (and so does
\* every recorded factor and every overall score).
MatchersInUnit ==
  (pc = "done" /\ call.op \in Matchers) => InUnit(result)

\* A string operand that is missing (undefined) or the empty string
MissingStr(v) == v = NONE \/ v = <<>>

\* A name operand that is missing, empty or made of whitespace only
BlankName(v) == MissingStr(v) \/ \A i \in 1..Len(v) : v[i] \in WS

\* A string-or-list operand that is missing, the empty string or an empty
\* sequence
MissingList(v) == v = Undef \/ v = Str(<<>>) \/ v = Arr(<<>>)

\* An operand of the call is missing in the sense of its matcher
MissingOperand ==
  CASE call.op = "matchName" -> BlankName(call.a) \/ BlankName(call.b)
    [] call.op \in {"matchEmailToUsername", "matchPhoneInBio"} ->
         MissingList(call.a) \/ MissingStr(call.b)
    [] OTHER -> MissingStr(call.a) \/ MissingStr(call.b)

\* C4: each of the seven field matchers returns 0 when either operand is
\* undefined or the empty string; matchName also for a whitespace-only
\* operand, matchEmailToUsername and matchPhoneInBio also for an empty
\* sequence.
MissingOperandGivesZero ==
  (pc = "done" /\ call.op \in Matchers /\ MissingOperand) => result = Zero

\* An email list with an empty local part against the empty username: only
\* the guard on the username makes the result 0.
EmptyUsernameGivesZero ==
  /\ Matched("matchEmailToUsername")
  /\ call.a = Arr(<<<<>>>>) /\ call.b = <<>>
  /\ result = Zero

\* The maximal runs of non-whitespace characters of s[i..], after the run
\* cur that is being read
RECURSIVE WordsFrom(_, _, _)
WordsFrom(s, i, cur) ==
  IF i > Len(s) THEN (IF cur = <<>> THEN <<>> ELSE <<cur>>)
  ELSE IF s[i] \in WS
       THEN (IF cur = <<>> THEN <<>> ELSE <<cur>>) \o WordsFrom(s, i + 1, <<>>)
       ELSE WordsFrom(s, i + 1, Append(cur, s[i]))

\* The tokens of a name: its case-folded words
Words(s) == WordsFrom(toLowerCase(s), 1, <<>>)

\* C9: matchName returns 1 when both names are non-blank and have the same
\* token sequence after case folding and splitting on whitespace runs.
EqualTokensGiveOne ==
  (Matched("matchName") /\ ~BlankName(call.a) /\ ~BlankName(call.b)
     /\ Words(call.a) = Words(call.b)) => result = One

\* Names that differ in letter case and in the whitespace between and
\* around the tokens
CaseAndSpacingIgnored ==
  /\ Matched("matchName")
  /\ call.a \in {<<"J", "a", "n", "e", " ", "D", "o", "e">>, <<"J", "A", "N", "E", "\t", "D", "O", "E">>}
  /\ call.b \in {<<"j", "a", "n", "e", " ", " ", "d", "o", "e">>, <<" ", "J", "a", "n", "e", " ", "D", "o", "e", " ">>}
  /\ result = One

\* Two case-folded first tokens are nickname-equivalent: identical, or both
\* among the formal name and variants of one table entry
NickEquivalent(t1, t2) ==
  \/ t1 = t2
  \/ \E e \in 1..Len(NICKNAMES) :
       LET group == {NICKNAMES[e][1]} \cup {NICKNAMES[e][2][i] : i \in 1..Len(NICKNAMES[e][2])}
       IN  t1 \in group /\ t2 \in group

\* The nickname branch applies to the call
NicknameCase ==
  /\ Matched("matchName") /\ ~BlankName(call.a) /\ ~BlankName(call.b)
  /\ Words(call.a) # Words(call.b)
  /\ NickEquivalent(Words(call.a)[1], Words(call.b)[1])

\* C10: when the names differ after normalization and their first tokens
\* are nickname-equivalent, matchName returns 0.95 if both names have at
\* least two tokens and the similarity of the last tokens exceeds 0.8, and
\* 0.7 otherwise; a shipped formal/nickname pair with the same last name
\* scores at least 0.9.
NicknameBranch ==
  /\ NicknameCase =>
       LET w1 == Words(call.a)
           w2 == Words(call.b)
       IN  result = IF /\ Len(w1) >= 2 /\ Len(w2) >= 2
                       /\ RLt(Rat(8, 10), similarity(w1[Len(w1)], w2[Len(w2)]))
                    THEN Rat(95, 100) ELSE Rat(7, 10)
  /\ (Matched("matchName")
        /\ <<call.a, call.b>> \in {<<<<"R", "o", "b", "e", "r", "t", " ", "J", "o", "h", "n", "s", "o", "n">>, <<"B", "o", "b", " ", "J", "o", "h", "n", "s", "o", "n">>>>, <<<<"W", "i", "l", "l", "i", "a", "m", " ", "S", "m", "i", "t", "h">>, <<"B", "i", "l", "l", " ", "S", "m", "i", "t", "h">>>>})
       => RLe(Rat(9, 10), result)

\* Robert Johnson against Bob Johnson scores 0.95
FormalAgainstNickname ==
  /\ NicknameCase
  /\ call.a = <<"R", "o", "b", "e", "r", "t", " ", "J", "o", "h", "n", "s", "o", "n">> /\ call.b = <<"B", "o", "b", " ", "J", "o", "h", "n", "s", "o", "n">>
  /\ result = Rat(95, 100)

\* Last tokens of similarity exactly 0.8 score 0.7
LastNameAtThreshold ==
  /\ NicknameCase
  /\ call.a = <<"B", "o", "b", " ", "J", "o", "n", "e", "s">> /\ call.b = <<"R", "o", "b", " ", "J", "o", "n", "a", "s">>
  /\ similarity(<<"j", "o", "n", "e", "s">>, <<"j", "o", "n", "a", "s">>) = Rat(8, 10)
  /\ result = Rat(7, 10)


\* ------------------------------------------------------------------------
\* Properties of the ranker (specification Spec)
\* ------------------------------------------------------------------------
Ranked == pc = "done" /\ call.op = "matchProfiles"

\* The bijections of 1..n
Bijections(n) == {f \in [1..n -> 1..n] : \A i, j \in 1..n : f[i] = f[j] => i = j}

\* The results of the candidates, in input order
InputResults == [i \in 1..Len(call.b) |-> calculateMatchScore(call.a, call.b[i])]

\* C6: matchProfiles returns one result per input profile, each equal to
\* calculateMatchScore of the person and that profile, in an order of
\* non-increasing score; the empty input gives the empty result.
RankedByScore ==
  Ranked =>
    /\ Len(result) = Len(call.b)
    /\ \E f \in Bijections(Len(call.b)) :
         \A i \in 1..Len(call.b) : result[i] = InputResults[f[i]]
    /\ \A i \in 1..(Len(result) - 1) : RLe(result[i + 1].score, result[i].score)
    /\ call.b = <<>> => result = <<>>

\* Two candidates given in ascending order of score come back exchanged.
BetterCandidateFirst ==
  /\ Ranked
  /\ Len(call.b) = 2
  /\ RLt(InputResults[1].score, InputResults[2].score)
  /\ result = <<InputResults[2], InputResults[1]>>

\* C7: matchProfiles is stable: results of equal score keep the order their
\* profiles have in the input.
StableUnderTies ==
  Ranked =>
    \A i \in 1..Len(call.b) :
      LET Tied(r) == r.score = InputResults[i].score
      IN  SelectSeq(result, Tied) = SelectSeq(InputResults, Tied)

\* Two different candidates of equal score come back in input order.
TiedCandidatesKeepOrder ==
  /\ Ranked
  /\ Len(call.b) = 2
  /\ call.b[1] # call.b[2]
  /\ InputResults[1].score = InputResults[2].score
  /\ result[1].profile = call.b[1] /\ result[2].profile = call.b[2]

IsInitialOf(t2, t1) ==
  /\ Len(t2) = 1 \/ (Len(t2) = 2 /\ t2[2] = ".")
  /\ t1[1] = t2[1]

\* The names differ after normalization, the nickname rule does not apply
\* and the profile's first token is an initial of the person's first token
InitialCase ==
  /\ Matched("matchName") /\ ~BlankName(call.a) /\ ~BlankName(call.b)
  /\ Words(call.a) # Words(call.b)
  /\ ~NickEquivalent(Words(call.a)[1], Words(call.b)[1])
  /\ IsInitialOf(Words(call.b)[1], Words(call.a)[1])

\* C11: when the profile's first token is an initial of the person's first
\* name ("J. Doe" against "Jane Doe") and the nickname rule does not apply,
\* matchName returns 0.5 + 0.3 * similarity of the last tokens when both
\* names have a last token, and 0.4 otherwise.
InitialRule ==
  InitialCase =>
    LET w1 == Words(call.a)
        w2 == Words(call.b)
    IN  result = IF Len(w1) >= 2 /\ Len(w2) >= 2
                 THEN RAdd(Rat(5, 10), RMul(Rat(3, 10), similarity(w1[Len(w1)], w2[Len(w2)])))
                 ELSE Rat(4, 10)


\* ------------------------------------------------------------------------
\* Properties of matchLocation (specification SpecMatchers)
\* ------------------------------------------------------------------------
\* The words joined by single spaces
RECURSIVE JoinWords(_)
JoinWords(ws) ==
  IF ws = <<>> THEN <<>>
  ELSE IF Len(ws) = 1 THEN ws[1]
  ELSE ws[1] \o <<" ">> \o JoinWords(Tail(ws))

\* The normalized form of a location: case-folded, periods and commas taken
\* as spaces, whitespace collapsed and trimmed
NormalForm(loc) ==
  LET l == toLowerCase(loc)
  IN  JoinWords(WordsFrom([i \in 1..Len(l) |-> IF l[i] \in {".", ","} THEN " " ELSE l[i]],
                          1, <<>>))

\* The names of entry e of the alias table: the canonical name and its aliases
AliasNames(e) ==
  {LOCATION_ALIASES[e][1]} \cup
  {LOCATION_ALIASES[e][2][i] : i \in 1..Len(LOCATION_ALIASES[e][2])}

\* One entry of the alias table has a name inside n1 and a name inside n2
SameAliasEntry(n1, n2) ==
  \E e \in 1..Len(LOCATION_ALIASES) :
    /\ \E a \in AliasNames(e) : includes(n1, a)
    /\ \E a \in AliasNames(e) : includes(n2, a)

LocationCalled == Matched("matchLocation") /\ ~MissingStr(call.a) /\ ~MissingStr(call.b)

\* C12: for two present locations matchLocation returns the value of the
\* first rule that applies: 1 for equal normalized forms, 0.9 for a common
\* alias entry, 0.85 when one normalized form contains the other, else the
\* similarity of the normalized forms; "Bay Area" against "San Francisco"
\* scores 0.9.
LocationRulesInOrder ==
  /\ LocationCalled =>
       LET n1 == NormalForm(call.a)
           n2 == NormalForm(call.b)
       IN  result = IF n1 = n2 THEN One
                    ELSE IF SameAliasEntry(n1, n2) THEN Rat(9, 10)
                    ELSE IF includes(n1, n2) \/ includes(n2, n1) THEN Rat(85, 100)
                    ELSE similarity(n1, n2)
  /\ (LocationCalled /\ call.a = <<"B", "a", "y", " ", "A", "r", "e", "a">> /\ call.b = <<"s", "a", "n", " ", "f", "r", "a", "n", "c", "i", "s", "c", "o">>) => result = Rat(9, 10)

\* A location that contains the other and shares an alias entry with it
\* scores 0.9, not 0.85
AliasBeforeContainment ==
  /\ LocationCalled
  /\ call.a = <<"S", "a", "n", " ", "F", "r", "a", "n", "c", "i", "s", "c", "o", ",", " ", "C", "A">> /\ call.b = <<"s", "a", "n", " ", "f", "r", "a", "n", "c", "i", "s", "c", "o">>
  /\ includes(NormalForm(call.a), NormalForm(call.b))
  /\ NormalForm(call.a) # NormalForm(call.b)
  /\ result = Rat(9, 10)


\* ------------------------------------------------------------------------
\* Properties of the bio matchers (specification SpecMatchers)
\* ------------------------------------------------------------------------
\* The positions of the words of s that are longer than n characters
LongWords(s, n) == {i \in 1..Len(Words(s)) : Len(Words(s)[i]) > n}

\* Those of them whose word occurs in the case-folded text
FoundWords(s, n, text) == {i \in LongWords(s, n) : includes(toLowerCase(text), Words(s)[i])}

\* The case-folded s occurs verbatim in the case-folded text
Verbatim(s, text) == includes(toLowerCase(text), toLowerCase(s))

EmployerCalled == Matched("matchEmployerInBio") /\ ~MissingStr(call.a) /\ ~MissingStr(call.b)

\* C13: for a present employer and bio, matchEmployerInBio returns 1 exactly
\* when the case-folded employer occurs in the case-folded bio; otherwise
\* 0.5 * matched / total over the employer's tokens longer than 2 characters
\* when one of them occurs in the bio, and 0 when none does or there is no
\* such token; a result that is not verbatim is at most 0.5.
EmployerRules ==
  EmployerCalled =>
    LET total == Cardinality(LongWords(call.a, 2))
        matched == Cardinality(FoundWords(call.a, 2, call.b))
    IN  /\ result = IF Verbatim(call.a, call.b) THEN One
                    ELSE IF matched > 0 THEN RMul(Rat(5, 10), Rat(matched, total))
                    ELSE Zero
        /\ result = One <=> Verbatim(call.a, call.b)
        /\ ~Verbatim(call.a, call.b) => RLe(result, Rat(5, 10))

\* "Acme Corp" in a bio that names Acme only: one of two long tokens, 0.25
EmployerPartialCredit ==
  /\ EmployerCalled
  /\ call.a = <<"A", "c", "m", "e", " ", "C", "o", "r", "p">> /\ call.b = <<"B", "i", "g", " ", "f", "a", "n", " ", "o", "f", " ", "A", "c", "m", "e">>
  /\ result = Rat(25, 100)

\* "Big Co" in the same bio: the short token "co" is not counted, 0.5
EmployerShortTokenIgnored ==
  /\ EmployerCalled
  /\ call.a = <<"B", "i", "g", " ", "C", "o">> /\ call.b = <<"B", "i", "g", " ", "f", "a", "n", " ", "o", "f", " ", "A", "c", "m", "e">>
  /\ result = Rat(5, 10)


JobTitleCalled == Matched("matchJobTitleInBio") /\ ~MissingStr(call.a) /\ ~MissingStr(call.b)

\* C14: for a present job title and bio, matchJobTitleInBio returns 1 when
\* the case-folded title occurs in the bio; else 0.6 * matched / total over
\* the title's tokens longer than 3 characters when one of them occurs in
\* the bio; else 0.5 * similarity(title, bio) when that similarity exceeds
\* 0.5; else 0.  A result that is not verbatim is at most 0.6, and
\* "Software Engineer" against "SWE at Google" scores 0.
JobTitleRules ==
  /\ JobTitleCalled =>
       LET total == Cardinality(LongWords(call.a, 3))
           matched == Cardinality(FoundWords(call.a, 3, call.b))
           sim == similarity(call.a, call.b)
       IN  /\ result = IF Verbatim(call.a, call.b) THEN One
                       ELSE IF matched > 0 THEN RMul(Rat(6, 10), Rat(matched, total))
                       ELSE IF RLt(Rat(5, 10), sim) THEN RMul(Rat(5, 10), sim)
                       ELSE Zero
           /\ ~Verbatim(call.a, call.b) => RLe(result, Rat(6, 10))
  /\ (JobTitleCalled /\ call.a = <<"S", "o", "f", "t", "w", "a", "r", "e", " ", "E", "n", "g", "i", "n", "e", "e", "r">> /\ call.b = <<"S", "W", "E", " ", "a", "t", " ", "G", "o", "o", "g", "l", "e">>) => result = Zero

\* "CEO" against the bio "CFO": no long token, similarity 2/3, result 1/3
JobTitleBySimilarity ==
  /\ JobTitleCalled
  /\ call.a = <<"C", "E", "O">> /\ call.b = <<"C", "F", "O">>
  /\ LongWords(call.a, 3) = {}
  /\ similarity(call.a, call.b) = Rat(2, 3)
  /\ result = Rat(1, 3)

\* "Software Engineer" against "Engineer at Acme Corp": one of two long
\* tokens, 0.3
JobTitlePartialCredit ==
  /\ JobTitleCalled
  /\ call.a = <<"S", "o", "f", "t", "w", "a", "r", "e", " ", "E", "n", "g", "i", "n", "e", "e", "r">> /\ call.b = <<"E", "n", "g", "i", "n", "e", "e", "r", " ", "a", "t", " ", "A", "c", "m", "e", " ", "C", "o", "r", "p">>
  /\ result = Rat(3, 10)

\* The abbreviation is not matched
AbbreviationScoresZero ==
  JobTitleCalled /\ call.a = <<"S", "o", "f", "t", "w", "a", "r", "e", " ", "E", "n", "g", "i", "n", "e", "e", "r">> /\ call.b = <<"S", "W", "E", " ", "a", "t", " ", "G", "o", "o", "g", "l", "e">> /\ result = Zero


\* ------------------------------------------------------------------------
\* Properties of matchEmailToUsername (specification SpecMatchers)
\* ------------------------------------------------------------------------
\* The text before the first '@' of an email, the whole string when it has
\* none
LocalPart(email) ==
  LET ats == {i \in 1..Len(email) : email[i] = "@"}
  IN  IF ats = {} THEN email
      ELSE SubSeq(email, 1, (CHOOSE i \in ats : \A j \in ats : i <= j) - 1)

\* s without dots, underscores, hyphens and digits
Strip(s) == SelectSeq(s, LAMBDA c : c \notin {".", "_", "-"} /\ c \notin Digit)

\* The tier one email reaches against the username, 0 when it reaches none
EmailTier(email, username) ==
  LET e == toLowerCase(LocalPart(email))
      u == toLowerCase(username)
  IN  IF e = u THEN One
      ELSE IF Strip(e) = Strip(u) THEN Rat(9, 10)
      ELSE IF includes(Strip(u), Strip(e)) \/ includes(Strip(e), Strip(u)) THEN Rat(7, 10)
      ELSE Zero

SingleEmailCalled ==
  /\ Matched("matchEmailToUsername")
  /\ call.a.kind = "string" /\ call.a.val # <<>>
  /\ ~MissingStr(call.b)

\* C15: for a single email and a present username, matchEmailToUsername
\* returns 1 when the case-folded text before the first '@' equals the
\* case-folded username; else 0.9 when the two are equal without dots,
\* underscores, hyphens and digits; else 0.7 when one stripped form contains
\* the other; else 0.  "john.doe@email.com" against "johndoe" scores 0.9 and
\* a bare string equal to the username scores 1.
SingleEmailTiers ==
  /\ SingleEmailCalled => result = EmailTier(call.a.val, call.b)
  /\ (SingleEmailCalled /\ call.a.val = <<"j", "o", "h", "n", ".", "d", "o", "e", "@", "e", "m", "a", "i", "l", ".", "c", "o", "m">> /\ call.b = <<"j", "o", "h", "n", "d", "o", "e">>) => result = Rat(9, 10)
  /\ (SingleEmailCalled /\ toLowerCase(call.a.val) = toLowerCase(call.b)
        /\ \A i \in 1..Len(call.a.val) : call.a.val[i] # "@") => result = One

\* An email and a username that differ by separators and digits only
StrippedFormsEqual ==
  /\ SingleEmailCalled
  /\ call.a.val = <<"j", "a", "n", "e", ".", "d", "o", "e", "@", "x", ".", "c", "o", "m">> /\ call.b = <<"j", "a", "n", "e", "_", "d", "o", "e", "1">>
  /\ result = Rat(9, 10)

\* A bare string equal to the username up to letter case
BareStringIsLocalPart ==
  /\ SingleEmailCalled
  /\ call.a.val = <<"J", "A", "N", "E", "D", "O", "E">> /\ call.b = <<"j", "a", "n", "e", "d", "o", "e">>
  /\ result = One


EmailListCalled ==
  /\ Matched("matchEmailToUsername")
  /\ call.a.kind = "array"
  /\ ~MissingStr(call.b)

\* The positions of the emails of the call that reach a tier
Qualifying == {i \in 1..Len(call.a.val) : EmailTier(call.a.val[i], call.b) # Zero}

SecondEmailMatches ==
  /\ EmailListCalled
  /\ call.a.val = <<<<"w", "o", "r", "k", "@", "c", "o", ".", "c", "o", "m">>, <<"j", "a", "n", "e", "d", "o", "e", "@", "x", ".", "c", "o", "m">>>> /\ call.b = <<"j", "a", "n", "e", "d", "o", "e">>
  /\ Qualifying = {2}
  /\ result = One


\* ------------------------------------------------------------------------
\* Properties of matchPhoneInBio (specification SpecMatchers)
\* ------------------------------------------------------------------------
\* The digits of a text, in order
DigitsIn(text) == SelectSeq(text, LAMBDA c : c \in Digit)

\* The last n elements of s, all of s when it has fewer
LastOf(s, n) == IF Len(s) <= n THEN s ELSE SubSeq(s, Len(s) - n + 1, Len(s))

\* The value one phone reaches in the bio, 0 when it does not qualify
PhoneTier(phone, bio) ==
  LET normalized == LastOf(DigitsIn(phone), 10)
  IN  IF Len(normalized) < 7 THEN Zero
      ELSE IF includes(DigitsIn(bio), normalized) THEN One
      ELSE IF includes(DigitsIn(bio), LastOf(normalized, 7)) THEN Rat(8, 10)
      ELSE Zero

PhoneCalled == Matched("matchPhoneInBio") /\ ~MissingList(call.a) /\ ~MissingStr(call.b)

\* The phones of the call, in order
PhonesCalled == IF call.a.kind = "array" THEN call.a.val ELSE <<call.a.val>>

\* The positions of the phones of the call that qualify
QualifyingPhones == {i \in 1..Len(PhonesCalled) : PhoneTier(PhonesCalled[i], call.b) # Zero}

\* C17: for present phones and bio, matchPhoneInBio returns at the first
\* phone, in order, that qualifies: 1 if its last 10 digits are at least 7
\* and occur contiguously in the digits of the bio, else 0.8 if its last 7
\* digits do; 0 if no phone qualifies.  A phone of fewer than 7 digits never
\* contributes.
FirstQualifyingPhoneWins ==
  PhoneCalled =>
    /\ QualifyingPhones = {} => result = Zero
    /\ \A i \in QualifyingPhones :
         (\A j \in QualifyingPhones : i <= j) => result = PhoneTier(PhonesCalled[i], call.b)
    /\ (\A i \in 1..Len(PhonesCalled) : Len(DigitsIn(PhonesCalled[i])) < 7) => result = Zero

\* A short phone whose digits occur in the bio is passed over; the next one
\* matches with its last 7 digits
ShortPhonePassedOver ==
  /\ PhoneCalled
  /\ call.a = Arr(<<<<"1", "2", "3">>, <<"(", "5", "5", "5", ")", " ", "1", "2", "3", "-", "4", "5", "6", "7">>>>) /\ call.b = <<"T", "e", "l", " ", "1", "2", "3", "-", "4", "5", "6", "7">>
  /\ includes(DigitsIn(call.b), DigitsIn(<<"1", "2", "3">>))
  /\ result = Rat(8, 10)

\* A short phone alone whose digits occur in the bio scores 0
ShortPhoneNeverMatches ==
  /\ PhoneCalled
  /\ call.a = Str(<<"1", "2", "3">>) /\ call.b = <<"T", "e", "l", " ", "1", "2", "3", "-", "4", "5", "6", "7">>
  /\ result = Zero


\* ------------------------------------------------------------------------
\* Properties of matchDateOfBirth (specification SpecMatchers)
\* ------------------------------------------------------------------------
DobCalled == Matched("matchDateOfBirth") /\ ~MissingStr(call.a) /\ ~MissingStr(call.b)

\* The birth year of a parseable date, as the program reads it
BirthYear(dob) == getFullYear(parseDate(dob))

\* C18: for every parseable date of birth and every bio, matchDateOfBirth
\* returns 1 when the year extracted from the bio equals the birth year,
\* 0.7 when the two differ by exactly 1, and 0 otherwise (no year extracted,
\* unparseable date, a difference of 2 or more); "born [in] YYYY" is tried
\* before the age pattern, and "Class of 1990" yields no year.
DobRules ==
  /\ DobCalled =>
       LET year == extractYearFromBio(call.b)
       IN  result = IF parseDate(call.a) = NULL \/ year = NULL THEN Zero
                    ELSE IF year[1] = BirthYear(call.a) THEN One
                    ELSE IF Abs(year[1] - BirthYear(call.a)) = 1 THEN Rat(7, 10)
                    ELSE Zero
  /\ extractYearFromBio(<<"C", "l", "a", "s", "s", " ", "o", "f", " ", "1", "9", "9", "0">>) = NULL
  /\ extractYearFromBio(<<"3", "0", "y", "o", ",", " ", "b", "o", "r", "n", " ", "1", "9", "9", "0">>) = <<1990>>


\* The bio has no "born [in] YYYY" text
NoBornPattern(bio) == \A i \in 1..Len(bio) : bornAt(bio, i) = 0

\* The bio has an age text ("NN years old", "NNyo", "NN y/o")
HasAgePattern(bio) == \E i \in 1..Len(bio) : ageAt(bio, i) # 0

\* The age parsed from the first age text of the bio
ParsedAge(bio) ==
  LET a == firstMatch({i \in 1..Len(bio) : ageAt(bio, i) # 0})
  IN  parseInt(SubSeq(bio, a, a + ageAt(bio, a) - 1))

\* C19: the age pattern yields the year currentYear - age only when the
\* parsed age is strictly between 10 and 99 (11 through 98); for any other
\* age no year is extracted and matchDateOfBirth returns 0 unless a "born"
\* pattern matched.
AgeStrictlyBetween10And99 ==
  (DobCalled /\ NoBornPattern(call.b) /\ HasAgePattern(call.b)) =>
    IF ParsedAge(call.b) \in 11..98
    THEN extractYearFromBio(call.b) = <<currentYear - ParsedAge(call.b)>>
    ELSE extractYearFromBio(call.b) = NULL /\ result = Zero


\* The date string is January 1st of a year in ISO form (YYYY-01-01)
IsoJanuaryFirst(dob) ==
  /\ parseDate(dob) # NULL
  /\ parseDate(dob)[1] = "utc" /\ parseDate(dob)[3] = 1 /\ parseDate(dob)[4] = 1

\* The year written in a parseable date string
WrittenYear(dob) == parseDate(dob)[2]

\* The bio is "NN years old"
StatesAge(bio) ==
  /\ Len(bio) = 12 /\ digitsAt(bio, 1, 2)
  /\ ciAt(bio, 3, <<" ", "y", "e", "a", "r", "s", " ", "o", "l", "d">>)

\* C20: for every in-range age N and Y = currentYear - N, matchDateOfBirth
\* of the date string Y-01-01 and the bio "N years old" returns 1 in every
\* environment; the birth year compared is the year written in the date
\* string.
JanuaryFirstMatchesAge ==
  /\ (DobCalled /\ IsoJanuaryFirst(call.a) /\ StatesAge(call.b)
        /\ ParsedAge(call.b) \in 11..98
        /\ WrittenYear(call.a) = currentYear - ParsedAge(call.b)) => result = One
  /\ (DobCalled /\ parseDate(call.a) # NULL) => BirthYear(call.a) = WrittenYear(call.a)


\* ------------------------------------------------------------------------
\* The string similarity called on its own
\* ------------------------------------------------------------------------
SimDict ==
  {<<"D", "o", "e">>,   \* "Doe"
   <<" ", "d", "o", "e", " ">>,   \* " doe "
   <<"J", "o", "n", "e", "s">>,   \* "Jones"
   <<"j", "o", "n", "a", "s">>,   \* "jonas"
   <<"J", "a", "n", "e">>,   \* "Jane"
   <<"j", "n">>}   \* "jn"

SimStrings == SimDict \cup Strs(NameChars, MaxStrLen)

CallSimilarity ==
  /\ pc = "idle"
  /\ \E a \in SimStrings, b \in SimStrings :
       /\ call' = [op |-> "similarity", a |-> a, b |-> b]
       /\ result' = similarity(a, b)
  /\ pc' = "done" /\ at' = now
  /\ UNCHANGED <<now, tz>>

CallLevenshtein ==
  /\ pc = "idle"
  /\ \E a \in SimStrings, b \in SimStrings :
       /\ call' = [op |-> "levenshtein", a |-> a, b |-> b]
       /\ result' = levenshtein(a, b)
  /\ pc' = "done" /\ at' = now
  /\ UNCHANGED <<now, tz>>

NextSimilarity ==
  \/ CallSimilarity
  \/ CallLevenshtein
  \/ Return

SpecSimilarity == Init /\ [][NextSimilarity]_vars

\* ------------------------------------------------------------------------
\* Properties of similarity (specification SpecSimilarity)
\* ------------------------------------------------------------------------
\* The least number of insertions, deletions and substitutions of one
\* character that turn a into b
RECURSIVE EditDistance(_, _)
EditDistance(a, b) ==
  IF a = <<>> THEN Len(b)
  ELSE IF b = <<>> THEN Len(a)
  ELSE IF Head(a) = Head(b) THEN EditDistance(Tail(a), Tail(b))
  ELSE 1 + Min3(EditDistance(Tail(a), Tail(b)), EditDistance(Tail(a), b),
                EditDistance(a, Tail(b)))

\* s without its leading and trailing whitespace
Trimmed(s) ==
  LET inside == {i \in 1..Len(s) : s[i] \notin WS}
  IN  IF inside = {} THEN <<>>
      ELSE SubSeq(s, CHOOSE i \in inside : \A j \in inside : i <= j,
                     CHOOSE i \in inside : \A j \in inside : j <= i)

\* levenshtein computes the edit distance
LevenshteinIsEditDistance ==
  Matched("levenshtein") => result = EditDistance(call.a, call.b)

\* C21: similarity(a, b) is 0 when either input trims to the empty string
\* and otherwise 1 - L / max(len(a), len(b)) on the trimmed inputs, L being
\* the edit distance of the case-folded trimmed strings; similarity(s, s) = 1
\* for every non-empty trimmed s, similarity is symmetric, and its value is
\* in [0,1].
SimilarityContract ==
  /\ LevenshteinIsEditDistance
  /\ Matched("similarity") =>
       LET ta == Trimmed(call.a)
           tb == Trimmed(call.b)
       IN  /\ result = IF ta = <<>> \/ tb = <<>> THEN Zero
                       ELSE RSub(One, Rat(EditDistance(toLowerCase(ta), toLowerCase(tb)),
                                          Max(Len(ta), Len(tb))))
           /\ (ta # <<>> /\ ta = tb) => result = One
           /\ result = similarity(call.b, call.a)
           /\ InUnit(result)


\* ------------------------------------------------------------------------
\* The two spellings of the display name (specification Spec)
\* ------------------------------------------------------------------------
\* The name factor of the pair when the profile's display name is d
NameFactorWith(person, d, factors) ==
  IF PresentStr(person.name)
    THEN "name_match" \in DOMAIN factors /\ factors.name_match = matchName(person.name, d)
    ELSE "name_match" \notin DOMAIN factors

\* Two results carry the same score and the same factors.
SameVerdict(r1, r2) == r1.score = r2.score /\ r1.factors = r2.factors

\* C22: displayName and display_name are one logical display-name field of
\* calculateMatchScore: when only display_name is populated the result is
\* the one the same value gives as displayName, and when both are populated
\* displayName is the value matched against person.name.
DisplayNameCoalesced ==
  Scored =>
    LET camel == call.b.displayName
        snake == call.b.display_name
    IN  /\ (~PresentStr(camel) /\ PresentStr(snake)) =>
             /\ NameFactorWith(call.a, snake, result.factors)
             /\ SameVerdict(result, calculateMatchScore(call.a,
                           [call.b EXCEPT !.displayName = snake, !.display_name = NONE]))
        /\ (PresentStr(camel) /\ PresentStr(snake)) =>
             /\ NameFactorWith(call.a, camel, result.factors)
             /\ SameVerdict(result, calculateMatchScore(call.a,
                           [call.b EXCEPT !.display_name = NONE]))

\* Both spellings are populated with different names, the person carries
\* the display_name one, and the name factor is that of displayName.
CamelCaseTakesPrecedence ==
  /\ Scored
  /\ PresentStr(call.b.displayName) /\ PresentStr(call.b.display_name)
  /\ call.b.displayName # call.b.display_name
  /\ call.a.name = call.b.display_name
  /\ result.factors.name_match = matchName(call.a.name, call.b.displayName)
  /\ result.factors.name_match # One

\* Only display_name is populated and it gives the name factor.
SnakeCaseAlone ==
  /\ Scored
  /\ ~PresentStr(call.b.displayName) /\ PresentStr(call.b.display_name)
  /\ call.a.name = call.b.display_name
  /\ result.factors.name_match = One


\* ------------------------------------------------------------------------
\* The HTTP endpoint POST /match
\* ------------------------------------------------------------------------
\* A request body is the parsed JSON object: a key is given or not, and a
\* given value is of the type the schema asks for or of another one.
NotAString == <<"NOT_A_STRING">>
NotAList == [kind |-> "other", val |-> <<>>]

MinRequestProfiles == 1
MaxRequestProfiles == 20

\* z.string() and z.string().optional()
isString(v) == v # NONE /\ v # NotAString
isOptionalString(v) == v = NONE \/ isString(v)

\* z.union([z.string(), z.array(z.string())]).optional()
isOptionalStringOrList(v) ==
  \/ v.kind = "undefined"
  \/ v.kind = "string" /\ isString(v.val)
  \/ v.kind = "array" /\ \A i \in 1..Len(v.val) : isString(v.val[i])

PersonSchemaOk(person) ==
  /\ \A f \in {"name", "location", "dateOfBirth", "employer", "jobTitle"} :
       isOptionalString(person[f])
  /\ isOptionalStringOrList(person.email)
  /\ isOptionalStringOrList(person.phone)

\* A profile of the body carries the set of the required keys it holds.
ProfileSchemaOk(profile) ==
  /\ {"platform", "username"} \subseteq profile.keys
  /\ isString(profile.val.username)
  /\ \A f \in {"displayName", "display_name", "bio", "location"} :
       isOptionalString(profile.val[f])

\* A variant of MatchRequestSchemaOk without the upper limit on profiles.
MatchRequestSchemaOkNoMax(body) ==
  /\ body.person.given /\ PersonSchemaOk(body.person.val)
  /\ body.profiles.given
  /\ Len(body.profiles.val) >= MinRequestProfiles
  /\ \A i \in 1..Len(body.profiles.val) : ProfileSchemaOk(body.profiles.val[i])

\* MatchRequestSchema.parse(req.body) does not throw
MatchRequestSchemaOk(body) ==
  /\ body.person.given /\ PersonSchemaOk(body.person.val)
  /\ body.profiles.given
  /\ Len(body.profiles.val) >= MinRequestProfiles
  /\ Len(body.profiles.val) <= MaxRequestProfiles
  /\ \A i \in 1..Len(body.profiles.val) : ProfileSchemaOk(body.profiles.val[i])

\* The value of MatchRequestSchema.parse(req.body) when it does not throw
parsedData(body) ==
  [person |-> body.person.val,
   profiles |-> [i \in 1..Len(body.profiles.val) |-> body.profiles.val[i].val]]

\* The issues of the ZodError, each by its path: the keys of the schemas in
\* their order, the size of the array before its elements.
personFields == <<"name", "email", "phone", "location", "dateOfBirth", "employer", "jobTitle">>
profileFields == <<"platform", "username", "displayName", "display_name", "bio", "location">>

personFieldOk(person, f) ==
  IF f \in {"email", "phone"} THEN isOptionalStringOrList(person[f])
  ELSE isOptionalString(person[f])

profileFieldOk(profile, f) ==
  CASE f = "platform" -> "platform" \in profile.keys
    [] f = "username" -> "username" \in profile.keys /\ isString(profile.val.username)
    [] OTHER -> isOptionalString(profile.val[f])

RECURSIVE profileIssues(_, _)
profileIssues(list, i) ==
  IF i > Len(list) THEN <<>>
  ELSE LET bad == SelectSeq(profileFields, LAMBDA f : ~profileFieldOk(list[i], f))
       IN  [k \in 1..Len(bad) |-> <<"profiles", ToString(i - 1), bad[k]>>]
             \o profileIssues(list, i + 1)

issues(body) ==
  (IF ~body.person.given THEN <<<<"person">>>>
   ELSE LET bad == SelectSeq(personFields, LAMBDA f : ~personFieldOk(body.person.val, f))
        IN  [k \in 1..Len(bad) |-> <<"person", bad[k]>>])
  \o
  (IF ~body.profiles.given THEN <<<<"profiles">>>>
   ELSE (IF \/ Len(body.profiles.val) < MinRequestProfiles
            \/ Len(body.profiles.val) > MaxRequestProfiles
           THEN <<<<"profiles">>>> ELSE <<>>)
        \o profileIssues(body.profiles.val, 1))

\* e.path.join('.')
RECURSIVE joinDot(_)
joinDot(path) ==
  IF Len(path) <= 1 THEN path
  ELSE <<Head(path), ".">> \o joinDot(Tail(path))

\* The handler: what is thrown inside try, the responses sent on res in
\* order, and the number of calls of matchProfiles made. The details of a
\* validation error carry the path of each issue (the message is left out).
postMatch(body) ==
  LET thrown == IF MatchRequestSchemaOk(body) THEN "none" ELSE "ZodError"
      data == parsedData(body)
      errors == issues(body)
  IN  CASE thrown = "none" ->
             [responses |-> <<[status |-> 200,
                               body |-> [matches |-> matchProfiles(data.person, data.profiles)]]>>,
              ranked |-> 1]
        [] thrown = "ZodError" ->
             [responses |-> <<[status |-> 400,
                               body |-> [error |-> "Validation Error",
                                         details |-> [k \in 1..Len(errors) |->
                                                        [path |-> joinDot(errors[k])]]]]>>,
              ranked |-> 0]
        [] OTHER ->
             [responses |-> <<[status |-> 500, body |-> [error |-> "Internal Server Error"]]>>,
              ranked |-> 0]

Given(v) == [given |-> TRUE, val |-> v]
Missing(v) == [given |-> FALSE, val |-> v]
Whole(profile) == [keys |-> {"platform", "username"}, val |-> profile]

RequestPersons ==
  {Given(NoPerson), Missing(NoPerson),
   Given([NoPerson EXCEPT !.name = NotAString]),
   Given([NoPerson EXCEPT !.email = NotAList]),
   Given([NoPerson EXCEPT !.email = Arr(<<NotAString>>)])}
  \cup {Given(person) : person \in RankPersons}

RequestProfiles ==
  {Whole(profile) : profile \in RankProfiles}
  \cup {[keys |-> {"username"}, val |-> NoProfile],
        [keys |-> {"platform"}, val |-> NoProfile],
        Whole([NoProfile EXCEPT !.username = NotAString]),
        Whole([NoProfile EXCEPT !.bio = NotAString])}

\* n profiles that differ in nothing that matters here
Repeated(n) == [i \in 1..n |-> Whole(NoProfile)]

RequestLists ==
  {Given(list) : list \in Arrays(RequestProfiles, MaxProfiles)}
  \cup {Missing(<<>>), Given(Repeated(MaxRequestProfiles)),
        Given(Repeated(MaxRequestProfiles + 1))}

Requests == [person : RequestPersons, profiles : RequestLists]

PostMatch ==
  /\ pc = "idle"
  /\ \E body \in Requests :
       /\ call' = [op |-> "POST /match", a |-> body, b |-> <<>>]
       /\ result' = postMatch(body)
  /\ pc' = "done" /\ at' = now
  /\ UNCHANGED <<now, tz>>

NextServer ==
  \/ PostMatch
  \/ Return
  \/ Tick

SpecServer == Init /\ [][NextServer]_vars

\* ------------------------------------------------------------------------
\* Properties of POST /match (specification SpecServer)
\* ------------------------------------------------------------------------
Posted == pc = "done" /\ call.op = "POST /match"

\* The failures of validation the documentation lists
ListedFailure(body) ==
  \/ ~body.person.given
  \/ ~body.profiles.given
  \/ body.profiles.val = <<>>
  \/ Len(body.profiles.val) > 20
  \/ \E i \in 1..Len(body.profiles.val) :
       \/ "platform" \notin body.profiles.val[i].keys
       \/ "username" \notin body.profiles.val[i].keys

\* Every value of the body that is given is of the documented type.
WellTyped(body) ==
  /\ body.person.given =>
       /\ \A f \in {"name", "location", "dateOfBirth", "employer", "jobTitle"} :
            body.person.val[f] # NotAString
       /\ \A f \in {"email", "phone"} :
            /\ body.person.val[f] # NotAList
            /\ \A i \in 1..Len(body.person.val[f].val) :
                 body.person.val[f].val[i] # NotAString
  /\ \A i \in 1..Len(body.profiles.val) :
       \A f \in {"username", "displayName", "display_name", "bio", "location"} :
         body.profiles.val[i].val[f] # NotAString

PassesValidation(body) == WellTyped(body) /\ ~ListedFailure(body)

\* C23: POST /match answers every request with exactly one response: 400
\* with an error body and no ranking when the body fails validation (person
\* missing, profiles missing or empty, more than 20 profiles, a profile
\* without platform or username); 200 with the ranked matches for every
\* body that passes validation, an empty person included; 500 for neither.
OneResponsePerRequest ==
  Posted =>
    LET body == call.a
        sent == result.responses
    IN  /\ Len(sent) = 1
        /\ ~PassesValidation(body) =>
             /\ sent[1].status = 400
             /\ "error" \in DOMAIN sent[1].body
             /\ "matches" \notin DOMAIN sent[1].body
             /\ result.ranked = 0
        /\ PassesValidation(body) =>
             /\ sent[1].status = 200
             /\ LET person == body.person.val
                    profiles == [i \in 1..Len(body.profiles.val) |-> body.profiles.val[i].val]
                    matches == sent[1].body.matches
                IN  /\ matches = matchProfiles(person, profiles)
                    /\ Len(matches) = Len(profiles)
                    /\ \A i \in 1..(Len(matches) - 1) :
                         RLe(matches[i + 1].score, matches[i].score)
        /\ sent[1].status # 500

\* Twenty-one well-formed profiles are refused and not ranked.
TooManyProfilesRefused ==
  /\ Posted
  /\ call.a.person.given /\ WellTyped(call.a)
  /\ Len(call.a.profiles.val) = 21
  /\ result.responses[1].status = 400
  /\ result.responses[1].body.details = <<[path |-> <<"profiles">>]>>
  /\ result.ranked = 0

\* An empty person and twenty profiles are answered with twenty matches.
EmptyPersonAccepted ==
  /\ Posted
  /\ call.a.person = Given(NoPerson)
  /\ Len(call.a.profiles.val) = 20
  /\ result.responses[1].status = 200
  /\ Len(result.responses[1].body.matches) = 20


\* ------------------------------------------------------------------------
\* The nickname test called on its own
\* ------------------------------------------------------------------------
TableNames == UNION {entryNames(NICKNAMES[e]) : e \in 1..Len(NICKNAMES)}

NickTokens ==
  TableNames \cup {<<"B", "o", "b">>, <<"R", "O", "B", "E", "R", "T">>, <<"z", "e", "d">>, <<"I_DOT">>, <<>>}

CallAreNicknameVariants ==
  /\ pc = "idle"
  /\ \E a \in NickTokens, b \in NickTokens :
       /\ call' = [op |-> "areNicknameVariants", a |-> a, b |-> b]
       /\ result' = areNicknameVariants(a, b)
  /\ pc' = "done" /\ at' = now
  /\ UNCHANGED <<now, tz>>

NextNicknames ==
  \/ CallAreNicknameVariants
  \/ Return

SpecNicknames == Init /\ [][NextNicknames]_vars

\* ------------------------------------------------------------------------
\* Properties of the nickname table (specification SpecNicknames)
\* ------------------------------------------------------------------------
\* The formal name of entry e together with its variants
VariantClosure(e) == {NICKNAMES[e][1]} \cup {NICKNAMES[e][2][i] : i \in 1..Len(NICKNAMES[e][2])}

\* No name belongs to two entries of the table.
EntriesDisjoint ==
  \A e1, e2 \in 1..Len(NICKNAMES) :
    e1 # e2 => VariantClosure(e1) \cap VariantClosure(e2) = {}

\* C24: over the shipped table, areNicknameVariants is an equivalence
\* relation on case-folded tokens: two tokens are variants exactly when,
\* case-folded, they are identical or belong to the variant closure of one
\* entry; the relation is reflexive, symmetric and transitive, no name
\* belonging to two entries.
NicknamesAreEquivalence ==
  /\ EntriesDisjoint
  /\ Matched("areNicknameVariants") =>
       LET a == toLowerCase(call.a)
           b == toLowerCase(call.b)
       IN  /\ result = (\/ a = b
                        \/ \E e \in 1..Len(NICKNAMES) :
                             a \in VariantClosure(e) /\ b \in VariantClosure(e))
           /\ areNicknameVariants(call.a, call.a)
           /\ result = areNicknameVariants(call.b, call.a)
           /\ result => \A c \in NickTokens :
                          areNicknameVariants(call.b, c) => areNicknameVariants(call.a, c)

\* Two different nicknames of one formal name are variants of each other,
\* each being a variant of the formal name, whatever the case.
NicknamesChained ==
  /\ Matched("areNicknameVariants")
  /\ call.a = <<"B", "o", "b">> /\ call.b = <<"r", "o", "b">>
  /\ result = TRUE
  /\ areNicknameVariants(call.a, <<"R", "O", "B", "E", "R", "T">>) /\ areNicknameVariants(<<"R", "O", "B", "E", "R", "T">>, call.b)


\* ------------------------------------------------------------------------
\* Fields supplied without data (specification Spec)
\* ------------------------------------------------------------------------
\* The person with every field that carries no data (the empty string, the
\* empty list) left out
WithoutEmptyFields(person) ==
  [f \in DOMAIN person |->
     IF f \in {"email", "phone"}
       THEN IF person[f] \in {Str(<<>>), Arr(<<>>)} THEN Undef ELSE person[f]
       ELSE IF person[f] = <<>> THEN NONE ELSE person[f]]

\* C25: a person field supplied without data is treated like an absent one:
\* an email or phone given as an empty list, and any field given as the
\* empty string, records no factor and adds no weight, so that the score
\* and the factors are those of the person without the field.
EmptyFieldLikeAbsent ==
  Scored =>
    SameVerdict(result, calculateMatchScore(WithoutEmptyFields(call.a), call.b))


\* ------------------------------------------------------------------------
\* Stripped forms without text (specification SpecMatchers)
\* ------------------------------------------------------------------------
\* The emails of the call, a single one as a list of one
EmailsCalled ==
  CASE call.a.kind = "string" -> <<call.a.val>>
    [] call.a.kind = "array" -> call.a.val
    [] OTHER -> <<>>

\* C26: matchEmailToUsername returns 0.9 or 0.7 only when the email local
\* part and the username share text: both stripped forms (without dots,
\* underscores, hyphens and digits) are non-empty, so that a local part or
\* a username of digits and separators only never gives 0.9 or 0.7.
StrippedTiersNeedText ==
  (Matched("matchEmailToUsername") /\ call.b # NONE /\ result \in {Rat(9, 10), Rat(7, 10)}) =>
    /\ Strip(toLowerCase(call.b)) # <<>>
    /\ \E i \in 1..Len(EmailsCalled) :
         /\ EmailTier(EmailsCalled[i], call.b) = result
         /\ Strip(toLowerCase(LocalPart(EmailsCalled[i]))) # <<>>

====
